---- MODULE Spec2Model ----
(***************************************************************************)
(* A model of the clox bytecode virtual machine and of its single-pass     *)
(* compiler.  The virtual machine (value stack, call frames, open-upvalue  *)
(* list, globals table, string intern table, object list) is modelled from *)
(* vm.c, table.c, object.c and value.c; the compiler from compiler.c.      *)
(***************************************************************************)
EXTENDS Integers, Sequences, FiniteSets, TLC

VARIABLES
    stack,          \* vm.stack: the fixed array of Values, indexed from 0
    stack_top,      \* vm.stack_top - vm.stack
    frames,         \* vm.frames[0 .. frame_count-1]; frame_count = Len(frames)
    open_upvalues,  \* vm.open_upvalues: id of the head ObjUpvalue, 0 = nullptr
    upvals,         \* the ObjUpvalue objects, by id
    closures,       \* the ObjClosure objects, by id
    strs,           \* the ObjString objects, by id
    objects,        \* vm.objects, head first
    freed,          \* the objects free_vm has freed, in the order of the calls of free
    globals,        \* vm.globals
    strings,        \* vm.strings, the intern table
    chunk,          \* the Chunk being compiled or run: [code, lines, constants]
    scanner,        \* the Scanner of scanner.c under a client that calls scan_token
    phase,          \* "idle": no interpret call is active; "run": inside run()
    result,         \* what the last interpret call returned
    err,            \* the message of the last runtime_error call of this interpret call
                    \* (in SpecLocals also: of the first error compile has reported)
    out             \* the values OP_PRINT has printed during this interpret call

vars == <<stack, stack_top, frames, open_upvalues, upvals, closures, strs, objects, freed,
          globals, strings, chunk, scanner, phase, result, err, out>>

----------------------------------------------------------------------------
(* Bounds of the model.                                                    *)

\* Slots of vm.stack that the model explores (the array is larger in the program).
STACK_SLOTS == 4
\* vm.frames has FRAMES_MAX entries; the model scales the array down.
FRAMES_MAX == 2
\* The largest number value; arithmetic whose result leaves -MaxNum..MaxNum is not explored.
MaxNum == 1
\* ObjClosure objects allocated in one behaviour.
MaxClosures == 3
\* ObjUpvalue objects allocated in one behaviour.
MaxUpvalues == 1
\* ObjString objects allocated in one behaviour (the two native names included).
MaxStrings == 7
\* Byte offsets of a chunk that the instruction pointer of a frame takes.
MaxIp == 7
\* Lines that OP_PRINT writes in one interpret call.
MaxOut == 1
\* Arguments of one OP_CALL.
MaxArgs == 1
\* The jump distances of SpecJumps are 0..MaxDistance and those around 2^8 and 2^16.
MaxDistance == 8
\* The constant indices of SpecConstants are 0..MaxIndex and those around 2^8 and 2^16.
MaxIndex == 24
\* Declarations in one block of the sources of SpecLocals.
MaxDecls == 2
\* Tokens before the TOKEN_EOF of a stream of SpecSync.
MaxStream == 4
\* Tokens before the TOKEN_EOF of a stream of SpecHalt.
MaxBlock == 4
\* Calls of scan_token in SpecHalt after the call that has returned TOKEN_EOF.
MaxRescans == 2
\* ObjUpvalue objects allocated in one behaviour of SpecOpen.
MaxCaptures == 4
\* Byte offsets that the instruction pointer of a frame takes in SpecShared.
MaxCode == 11
\* ObjClosure objects allocated in one behaviour of SpecShared.
MaxHeap == 4
\* ObjUpvalue objects allocated in one behaviour of SpecShared.
MaxShared == 2

----------------------------------------------------------------------------
(* Values (value.h): a tag and a payload.  The payload of an object value  *)
(* is the id of the object it points to; the tag also carries the ObjType. *)

NIL_VAL == [t |-> "nil", v |-> 0]
BOOL_VAL(b) == [t |-> "bool", v |-> IF b THEN 1 ELSE 0]
NUMBER_VAL(n) == [t |-> "number", v |-> n]
OBJ_VAL(type, id) == [t |-> type, v |-> id]

IS_NIL(value) == value.t = "nil"
IS_BOOL(value) == value.t = "bool"
IS_NUMBER(value) == value.t = "number"
IS_OBJ(value) == value.t \in {"string", "function", "native", "closure"}
IS_STRING(value) == value.t = "string"
AS_BOOL(value) == value.v = 1
AS_NUMBER(value) == value.v

values_equal(a, b) ==
    IF IS_OBJ(a) /\ IS_OBJ(b) THEN a.t = b.t /\ a.v = b.v
    ELSE IF a.t # b.t THEN FALSE
    ELSE IF IS_BOOL(a) THEN AS_BOOL(a) = AS_BOOL(b)
    ELSE IF IS_NIL(a) THEN TRUE
    ELSE IF IS_NUMBER(a) THEN AS_NUMBER(a) = AS_NUMBER(b)
    ELSE FALSE

\* is_falsey that takes the number 0 for falsy as well.
is_falsey_or_zero(value) ==
    IS_NIL(value) \/ (IS_BOOL(value) /\ ~AS_BOOL(value)) \/ (IS_NUMBER(value) /\ AS_NUMBER(value) = 0)

is_falsey(value) == IS_NIL(value) \/ (IS_BOOL(value) /\ ~AS_BOOL(value))

----------------------------------------------------------------------------
(* hash_string (object.c): 32-bit FNV-1a.  A hash is kept as two 16-bit    *)
(* halves <<hi, lo>> so that the arithmetic modulo 2^32 is exact.          *)

RECURSIVE Xor(_, _, _)
Xor(a, b, bits) ==
    IF bits = 0 THEN 0
    ELSE (IF (a % 2) # (b % 2) THEN 1 ELSE 0) + 2 * Xor(a \div 2, b \div 2, bits - 1)

\* hash ^= byte
HashXorByte(h, byte) == <<h[1], (h[2] \div 256) * 256 + Xor(h[2] % 256, byte, 8)>>

\* hash *= 16777619u, 16777619 = 256 * 65536 + 403
HashTimesPrime(h) ==
    <<(h[1] * 403 + (h[2] % 256) * 256 + ((h[2] * 403) \div 65536)) % 65536,
      (h[2] * 403) % 65536>>

\* 2166136261 = 33052 * 65536 + 40389
FNV_BASIS == <<33052, 40389>>

RECURSIVE HashFrom(_, _, _)
HashFrom(h, chars, i) ==
    IF i > Len(chars) THEN h
    ELSE HashFrom(HashTimesPrime(HashXorByte(h, chars[i])), chars, i + 1)

hash_string(chars) == HashFrom(FNV_BASIS, chars, 1)

\* hash % (uint32_t)capacity
HashMod(h, capacity) ==
    (((h[1] % capacity) * (65536 % capacity)) + (h[2] % capacity)) % capacity

----------------------------------------------------------------------------
(* The hash table (table.c).  A table is [count, capacity, entries];       *)
(* entries[i + 1] is the C entries[i]; a key is the id of an ObjString and *)
(* 0 is nullptr.  S is the heap of ObjString objects, read for key->hash.  *)

GROW_CAPACITY(capacity) == IF capacity < 8 THEN 8 ELSE capacity * 2

EmptyEntry == [key |-> 0, value |-> NIL_VAL]
Tombstone == [key |-> 0, value |-> BOOL_VAL(TRUE)]

init_table == [count |-> 0, capacity |-> 0, entries |-> <<>>]

\* The probe loop of find_entry from `index` on; n counts the probes made.  The
\* result is the index of the entry found, or -1 when the loop has visited every
\* entry without returning (it then runs forever).
\* The probe loop of find_entry with a tombstone taken for an empty entry.
RECURSIVE FindEntryFrom_stops_at_tombstone(_, _, _, _, _, _)
FindEntryFrom_stops_at_tombstone(entries, capacity, key, index, tombstone, n) ==
    IF n >= capacity THEN -1
    ELSE LET entry == entries[index + 1] IN
         IF entry.key = 0 THEN index
         ELSE IF entry.key = key THEN index
         ELSE FindEntryFrom_stops_at_tombstone(entries, capacity, key,
                                               (index + 1) % capacity, tombstone, n + 1)

RECURSIVE FindEntryFrom(_, _, _, _, _, _)
FindEntryFrom(entries, capacity, key, index, tombstone, n) ==
    IF n >= capacity THEN -1
    ELSE LET entry == entries[index + 1] IN
         IF entry.key = 0 THEN
             IF IS_NIL(entry.value) THEN (IF tombstone # -1 THEN tombstone ELSE index)
             ELSE FindEntryFrom(entries, capacity, key, (index + 1) % capacity,
                                IF tombstone = -1 THEN index ELSE tombstone, n + 1)
         ELSE IF entry.key = key THEN index
         ELSE FindEntryFrom(entries, capacity, key, (index + 1) % capacity, tombstone, n + 1)

find_entry(S, entries, capacity, key) ==
    FindEntryFrom(entries, capacity, key, HashMod(S[key].hash, capacity), -1, 0)

\* [found, value]
table_get(S, table, key) ==
    IF table.count = 0 THEN [found |-> FALSE, value |-> NIL_VAL]
    ELSE LET index == find_entry(S, table.entries, table.capacity, key)
             entry == table.entries[index + 1] IN
         IF entry.key = 0 THEN [found |-> FALSE, value |-> NIL_VAL]
         ELSE [found |-> TRUE, value |-> entry.value]

\* The re-insertion loop of adjust_capacity from old index i on.
RECURSIVE Rehash(_, _, _, _, _)
Rehash(S, old, i, entries, count) ==
    IF i > Len(old) THEN [entries |-> entries, count |-> count]
    ELSE IF old[i].key = 0 THEN Rehash(S, old, i + 1, entries, count)
    ELSE LET dest == find_entry(S, entries, Len(entries), old[i].key) IN
         Rehash(S, old, i + 1,
                [entries EXCEPT ![dest + 1] = [key |-> old[i].key, value |-> old[i].value]],
                count + 1)

adjust_capacity(S, table, capacity) ==
    LET r == Rehash(S, table.entries, 1, [i \in 1..capacity |-> EmptyEntry], 0) IN
    [count |-> r.count, capacity |-> capacity, entries |-> r.entries]

\* The test of table_set with a TABLE_MAX_LOAD of 1.
OverMaxLoad_of_one(table) == table.count + 1 > table.capacity

\* table->count + 1 > table->capacity * TABLE_MAX_LOAD, TABLE_MAX_LOAD = 0.75 = 3/4
OverMaxLoad(table) == (table.count + 1) * 4 > table.capacity * 3

\* [table, is_new_key]
table_set(S, table, key, value) ==
    LET t1 == IF OverMaxLoad(table)
              THEN adjust_capacity(S, table, GROW_CAPACITY(table.capacity))
              ELSE table
        index == find_entry(S, t1.entries, t1.capacity, key)
        entry == t1.entries[index + 1]
        is_new_key == entry.key = 0
    IN  [table |-> [count |-> IF is_new_key /\ IS_NIL(entry.value)
                              THEN t1.count + 1 ELSE t1.count,
                    capacity |-> t1.capacity,
                    entries |-> [t1.entries EXCEPT ![index + 1] =
                                     [key |-> key, value |-> value]]],
         is_new_key |-> is_new_key]

\* [table, deleted]
table_delete(S, table, key) ==
    IF table.count = 0 THEN [table |-> table, deleted |-> FALSE]
    ELSE LET index == find_entry(S, table.entries, table.capacity, key) IN
         IF table.entries[index + 1].key = 0 THEN [table |-> table, deleted |-> FALSE]
         ELSE [table |-> [table EXCEPT !.entries[index + 1] = Tombstone],
               deleted |-> TRUE]

\* The probe loop of table_find_string; 0 is nullptr, -1 a loop that runs forever.
RECURSIVE FindStringFrom(_, _, _, _, _, _)
FindStringFrom(S, table, chars, hash, index, n) ==
    IF n >= table.capacity THEN -1
    ELSE LET entry == table.entries[index + 1] IN
         IF entry.key = 0 /\ IS_NIL(entry.value) THEN 0
         ELSE IF entry.key # 0 /\ Len(S[entry.key].chars) = Len(chars)
                 /\ S[entry.key].hash = hash /\ S[entry.key].chars = chars
              THEN entry.key
         ELSE FindStringFrom(S, table, chars, hash, (index + 1) % table.capacity, n + 1)

table_find_string(S, table, chars, hash) ==
    IF table.count = 0 THEN 0
    ELSE FindStringFrom(S, table, chars, hash, HashMod(hash, table.capacity), 0)

----------------------------------------------------------------------------
(* Heap objects (object.h, object.c).                                      *)

\* The ObjFunction objects a compilation has produced, by id: the script and three
\* declared functions.  Function 1 is the top-level script.
Functions ==
    <<[arity |-> 0, upvalue_count |-> 0],
      [arity |-> 0, upvalue_count |-> 0],
      [arity |-> 1, upvalue_count |-> 0],
      [arity |-> 0, upvalue_count |-> 1]>>

\* The ObjNative objects init_vm creates, by id.
Natives == <<"clock_native", "read_number_native">>

\* Probe of the intern table, then reserve_string and table_set for a new string:
\* [id, strs, strings, objects].
copy_string(S, T, O, chars) ==
    LET hash == hash_string(chars)
        interned == table_find_string(S, T, chars, hash)
    IN  IF interned # 0
        THEN [id |-> interned, strs |-> S, strings |-> T, objects |-> O]
        ELSE LET id == Len(S) + 1
                 S1 == Append(S, [chars |-> chars, hash |-> hash])
             IN  [id |-> id, strs |-> S1,
                  strings |-> table_set(S1, T, id, NIL_VAL).table,
                  objects |-> <<<<"string", id>>>> \o O]

\* [id, closures, objects]
new_closure(C, O, function) ==
    LET id == Len(C) + 1 IN
    [id |-> id,
     closures |-> Append(C, [function |-> function,
                             upvalues |-> [i \in 1..Functions[function].upvalue_count |-> 0]]),
     objects |-> <<<<"closure", id>>>> \o O]

\* [id, upvals, objects]
new_upvalue(U, O, slot) ==
    LET id == Len(U) + 1 IN
    [id |-> id,
     upvals |-> Append(U, [location |-> slot, closed |-> NIL_VAL, next |-> 0]),
     objects |-> <<<<"upvalue", id>>>> \o O]

----------------------------------------------------------------------------
(* The virtual machine (vm.c).                                             *)

frame_count == Len(frames)
Frame == frames[Len(frames)]
peek(distance) == stack[stack_top - 1 - distance]

\* The state init_vm leaves: reset_stack, empty tables, and two define_native
\* calls, each of which pushes the name and the native, sets the global and pops.
NativeNames == <<<<99, 108, 111, 99, 107>>,
                 <<114, 101, 97, 100, 95, 110, 117, 109, 98, 101, 114>>>>

RECURSIVE DefineNatives(_, _)
DefineNatives(i, st) ==
    IF i > Len(NativeNames) THEN st
    ELSE LET c == copy_string(st.strs, st.strings, st.objects, NativeNames[i])
             name == OBJ_VAL("string", c.id)
             native == OBJ_VAL("native", i)
         IN  DefineNatives(i + 1,
                 [strs |-> c.strs, strings |-> c.strings,
                  objects |-> <<<<"native", i>>>> \o c.objects,
                  stack |-> [st.stack EXCEPT ![0] = name, ![1] = native],
                  globals |-> table_set(c.strs, st.globals, c.id, native).table])

InitVm ==
    DefineNatives(1, [strs |-> <<>>, strings |-> init_table, objects |-> <<>>,
                      stack |-> [i \in 0..(STACK_SLOTS - 1) |-> NIL_VAL],
                      globals |-> init_table])

init_vm ==
    /\ stack = InitVm.stack
    /\ stack_top = 0
    /\ frames = <<>>
    /\ open_upvalues = 0
    /\ upvals = <<>>
    /\ closures = <<>>
    /\ strs = InitVm.strs
    /\ objects = InitVm.objects
    /\ freed = <<>>
    /\ globals = InitVm.globals
    /\ strings = InitVm.strings

heapVars == <<upvals, closures, strs, objects, freed>>
tableVars == <<globals, strings>>
ctlVars == <<phase, result, err, out>>

\* runtime_error that prints the message and leaves the stack as it is.
runtime_error_without_reset(format, args) ==
    /\ err' = [format |-> format, args |-> args]
    /\ UNCHANGED <<stack_top, frames, open_upvalues>>

\* runtime_error: the message goes to stderr, then reset_stack.
runtime_error(format, args) ==
    /\ err' = [format |-> format, args |-> args]
    /\ stack_top' = 0
    /\ frames' = <<>>
    /\ open_upvalues' = 0

\* return INTERPRET_RUNTIME_ERROR out of run() and interpret()
ReturnRuntimeError ==
    /\ result' = "INTERPRET_RUNTIME_ERROR"
    /\ phase' = "idle"

\* An instruction that fails without having changed anything else.
Fail(format, args) ==
    /\ runtime_error(format, args)
    /\ ReturnRuntimeError
    /\ UNCHANGED <<stack, heapVars, tableVars, chunk, scanner, out>>

\* frame->ip after the instruction has been decoded
StepTo(nip) == frames' = [frames EXCEPT ![Len(frames)].ip = nip]

\* push(value); break
PushStep(value, nip) ==
    /\ stack' = [stack EXCEPT ![stack_top] = value]
    /\ stack_top' = stack_top + 1
    /\ StepTo(nip)
    /\ UNCHANGED <<open_upvalues, heapVars, tableVars, chunk, scanner, ctlVars>>

\* the top of the stack is replaced by value; break
ReplaceTopStep(value, nip) ==
    /\ stack' = [stack EXCEPT ![stack_top - 1] = value]
    /\ UNCHANGED stack_top
    /\ StepTo(nip)
    /\ UNCHANGED <<open_upvalues, heapVars, tableVars, chunk, scanner, ctlVars>>

\* the two topmost values are replaced by value; break
ReplaceTwoStep(value, nip) ==
    /\ stack' = [stack EXCEPT ![stack_top - 2] = value]
    /\ stack_top' = stack_top - 1
    /\ StepTo(nip)
    /\ UNCHANGED <<open_upvalues, heapVars, tableVars, chunk, scanner, ctlVars>>

\* (void)pop(); break
PopStep(nip) ==
    /\ stack_top' = stack_top - 1
    /\ StepTo(nip)
    /\ UNCHANGED <<stack, open_upvalues, heapVars, tableVars, chunk, scanner, ctlVars>>

\* OP_CONSTANT, OP_CONSTANT_LONG
ExecConstant(constant, nip) == PushStep(constant, nip)

\* OP_NIL, OP_TRUE, OP_FALSE
ExecLiteral(value, nip) == PushStep(value, nip)

ExecPop(nip) == PopStep(nip)

ExecNegate(nip) ==
    IF ~IS_NUMBER(peek(0))
    THEN Fail("Operand must be a number.", <<>>)
    ELSE ReplaceTopStep(NUMBER_VAL(-AS_NUMBER(peek(0))), nip)

ExecNot(nip) == ReplaceTopStep(BOOL_VAL(is_falsey(peek(0))), nip)

ExecEqual(nip) == ReplaceTwoStep(BOOL_VAL(values_equal(peek(1), peek(0))), nip)

ExecGetLocal(slot, nip) == PushStep(stack[Frame.slots + slot], nip)

ExecSetLocal(slot, nip) ==
    /\ stack' = [stack EXCEPT ![Frame.slots + slot] = peek(0)]
    /\ StepTo(nip)
    /\ UNCHANGED <<stack_top, open_upvalues, heapVars, tableVars, chunk, scanner, ctlVars>>

\* a / b for the operands the model explores: b divides a
Quotient(a, b) ==
    LET abs(x) == IF x < 0 THEN -x ELSE x
        q == abs(a) \div abs(b)
    IN  IF (a < 0) = (b < 0) THEN q ELSE -q

Apply(op, a, b) ==
    CASE op = "OP_GREATER" -> BOOL_VAL(a > b)
      [] op = "OP_LESS" -> BOOL_VAL(a < b)
      [] op = "OP_SUBTRACT" -> NUMBER_VAL(a - b)
      [] op = "OP_MULTIPLY" -> NUMBER_VAL(a * b)
      [] op = "OP_DIVIDE" -> NUMBER_VAL(Quotient(a, b))

\* BINARY_OP(value_type, op)
BINARY_OP(op, nip) ==
    IF ~IS_NUMBER(peek(0)) \/ ~IS_NUMBER(peek(1))
    THEN Fail("Operands must be numbers.", <<>>)
    ELSE ReplaceTwoStep(Apply(op, AS_NUMBER(peek(1)), AS_NUMBER(peek(0))), nip)

\* concatenate that interns its result without looking it up first.
concatenate_unchecked(nip) ==
    LET b == strs[peek(0).v]
        a == strs[peek(1).v]
        chars == a.chars \o b.chars
        id == Len(strs) + 1
        reserved == Append(strs, [chars |-> chars, hash |-> hash_string(chars)])
    IN  /\ stack' = [stack EXCEPT ![stack_top - 2] = OBJ_VAL("string", id)]
        /\ strs' = reserved
        /\ strings' = table_set(reserved, strings, id, NIL_VAL).table
        /\ objects' = <<<<"string", id>>>> \o objects
        /\ freed' = freed

\* concatenate that frees the reserved string without restoring vm.objects.
concatenate_without_restore(nip) ==
    LET b == strs[peek(0).v]
        a == strs[peek(1).v]
        chars == a.chars \o b.chars
        hash == hash_string(chars)
        id == Len(strs) + 1
        reserved == Append(strs, [chars |-> chars, hash |-> hash])
        interned == table_find_string(strs, strings, chars, hash)
    IN  IF interned # 0
        THEN /\ stack' = [stack EXCEPT ![stack_top - 2] = OBJ_VAL("string", interned)]
             /\ objects' = <<<<"string", id>>>> \o objects
             /\ freed' = freed
             /\ UNCHANGED <<strs, strings>>
        ELSE /\ stack' = [stack EXCEPT ![stack_top - 2] = OBJ_VAL("string", id)]
             /\ strs' = reserved
             /\ strings' = table_set(reserved, strings, id, NIL_VAL).table
             /\ objects' = <<<<"string", id>>>> \o objects
             /\ freed' = freed

\* concatenate: the new string is reserved, filled and hashed; when its content is
\* interned already it is freed again and vm.objects restored.
concatenate(nip) ==
    LET objects_list_head == objects
        b == strs[peek(0).v]
        a == strs[peek(1).v]
        chars == a.chars \o b.chars
        hash == hash_string(chars)
        id == Len(strs) + 1
        reserved == Append(strs, [chars |-> chars, hash |-> hash])
        interned == table_find_string(strs, strings, chars, hash)
    IN  IF interned # 0
        THEN /\ stack' = [stack EXCEPT ![stack_top - 2] = OBJ_VAL("string", interned)]
             /\ objects' = objects_list_head
             /\ freed' = freed
             /\ UNCHANGED <<strs, strings>>
        ELSE /\ stack' = [stack EXCEPT ![stack_top - 2] = OBJ_VAL("string", id)]
             /\ strs' = reserved
             /\ strings' = table_set(reserved, strings, id, NIL_VAL).table
             /\ objects' = <<<<"string", id>>>> \o objects
             /\ freed' = freed

\* OP_ADD that adds numbers and rejects everything else.
ExecAdd_numbers_only(nip) ==
    IF IS_NUMBER(peek(0)) /\ IS_NUMBER(peek(1))
    THEN ReplaceTwoStep(NUMBER_VAL(AS_NUMBER(peek(1)) + AS_NUMBER(peek(0))), nip)
    ELSE Fail("Operands must be two numbers or two strings.", <<>>)

ExecAdd(nip) ==
    IF IS_STRING(peek(0)) /\ IS_STRING(peek(1))
    THEN /\ concatenate(nip)
         /\ stack_top' = stack_top - 1
         /\ StepTo(nip)
         /\ UNCHANGED <<open_upvalues, upvals, closures, globals, chunk, scanner, ctlVars>>
    ELSE IF IS_NUMBER(peek(0)) /\ IS_NUMBER(peek(1))
    THEN ReplaceTwoStep(NUMBER_VAL(AS_NUMBER(peek(1)) + AS_NUMBER(peek(0))), nip)
    ELSE Fail("Operands must be two numbers or two strings.", <<>>)

ExecGetGlobal(name, nip) ==
    LET got == table_get(strs, globals, name) IN
    IF ~got.found
    THEN Fail("Undefined variable '%s'.", <<strs[name].chars>>)
    ELSE PushStep(got.value, nip)

ExecDefineGlobal(name, nip) ==
    /\ globals' = table_set(strs, globals, name, peek(0)).table
    /\ stack_top' = stack_top - 1
    /\ StepTo(nip)
    /\ UNCHANGED <<stack, open_upvalues, heapVars, strings, chunk, scanner, ctlVars>>

\* OP_SET_GLOBAL that reports the undefined name without deleting it again.
ExecSetGlobal_without_delete(name, nip) ==
    LET set == table_set(strs, globals, name, peek(0)) IN
    IF set.is_new_key
    THEN /\ globals' = set.table
         /\ runtime_error("Undefined variable '%s'.", <<strs[name].chars>>)
         /\ ReturnRuntimeError
         /\ UNCHANGED <<stack, heapVars, strings, chunk, scanner, out>>
    ELSE /\ globals' = set.table
         /\ StepTo(nip)
         /\ UNCHANGED <<stack, stack_top, open_upvalues, heapVars, strings, chunk, scanner, ctlVars>>

ExecSetGlobal(name, nip) ==
    LET set == table_set(strs, globals, name, peek(0)) IN
    IF set.is_new_key
    THEN /\ globals' = table_delete(strs, set.table, name).table
         /\ runtime_error("Undefined variable '%s'.", <<strs[name].chars>>)
         /\ ReturnRuntimeError
         /\ UNCHANGED <<stack, heapVars, strings, chunk, scanner, out>>
    ELSE /\ globals' = set.table
         /\ StepTo(nip)
         /\ UNCHANGED <<stack, stack_top, open_upvalues, heapVars, strings, chunk, scanner, ctlVars>>

ExecPrint(nip) ==
    /\ out' = Append(out, peek(0))
    /\ stack_top' = stack_top - 1
    /\ StepTo(nip)
    /\ UNCHANGED <<stack, open_upvalues, heapVars, tableVars, chunk, scanner, phase, result, err>>

\* nip is frame->ip after READ_SHORT
ExecJump(offset, nip) ==
    /\ StepTo(nip + offset)
    /\ UNCHANGED <<stack, stack_top, open_upvalues, heapVars, tableVars, chunk, scanner, ctlVars>>

ExecJumpIfFalse(offset, nip) ==
    /\ StepTo(IF is_falsey(peek(0)) THEN nip + offset ELSE nip)
    /\ UNCHANGED <<stack, stack_top, open_upvalues, heapVars, tableVars, chunk, scanner, ctlVars>>

ExecLoop(offset, nip) ==
    /\ StepTo(nip - offset)
    /\ UNCHANGED <<stack, stack_top, open_upvalues, heapVars, tableVars, chunk, scanner, ctlVars>>

\* Where an upvalue's location points: a slot of vm.stack, or (Closed) the
\* upvalue's own closed field.
Closed == -1

\* *upvalue->location
Deref(U, stk, id) ==
    IF U[id].location = Closed THEN U[id].closed ELSE stk[U[id].location]

\* The walk of capture_upvalue: [prev_upvalue, upvalue] where the while loop stops.
RECURSIVE CaptureWalk(_, _, _, _)
CaptureWalk(U, prev_upvalue, upvalue, local) ==
    IF upvalue # 0 /\ U[upvalue].location > local
    THEN CaptureWalk(U, upvalue, U[upvalue].next, local)
    ELSE [prev_upvalue |-> prev_upvalue, upvalue |-> upvalue]

\* capture_upvalue that links a created upvalue in at the head of the list.
capture_upvalue_at_head(U, O, head, local) ==
    LET w == CaptureWalk(U, 0, head, local) IN
    IF w.upvalue # 0 /\ U[w.upvalue].location = local
    THEN [id |-> w.upvalue, upvals |-> U, objects |-> O, open_upvalues |-> head]
    ELSE LET n == new_upvalue(U, O, local)
         IN  [id |-> n.id,
              upvals |-> [n.upvals EXCEPT ![n.id].next = head],
              objects |-> n.objects,
              open_upvalues |-> n.id]

\* capture_upvalue that creates an upvalue for every capture.
capture_upvalue_without_reuse(U, O, head, local) ==
    LET w == CaptureWalk(U, 0, head, local)
        n == new_upvalue(U, O, local)
        created == [n.upvals EXCEPT ![n.id].next = w.upvalue]
    IN  [id |-> n.id,
         upvals |-> IF w.prev_upvalue = 0 THEN created
                    ELSE [created EXCEPT ![w.prev_upvalue].next = n.id],
         objects |-> n.objects,
         open_upvalues |-> IF w.prev_upvalue = 0 THEN n.id ELSE head]

\* [id, upvals, objects, open_upvalues]
capture_upvalue(U, O, head, local) ==
    LET w == CaptureWalk(U, 0, head, local) IN
    IF w.upvalue # 0 /\ U[w.upvalue].location = local
    THEN [id |-> w.upvalue, upvals |-> U, objects |-> O, open_upvalues |-> head]
    ELSE LET n == new_upvalue(U, O, local)
             created == [n.upvals EXCEPT ![n.id].next = w.upvalue]
         IN  [id |-> n.id,
              upvals |-> IF w.prev_upvalue = 0 THEN created
                         ELSE [created EXCEPT ![w.prev_upvalue].next = n.id],
              objects |-> n.objects,
              open_upvalues |-> IF w.prev_upvalue = 0 THEN n.id ELSE head]

\* close_upvalues that moves the location and leaves the closed field as it is.
RECURSIVE close_upvalues_without_copy(_, _, _, _)
close_upvalues_without_copy(U, stk, head, last) ==
    IF head # 0 /\ U[head].location >= last
    THEN close_upvalues_without_copy([U EXCEPT ![head].location = Closed],
                                     stk, U[head].next, last)
    ELSE [upvals |-> U, open_upvalues |-> head]

\* [upvals, open_upvalues]
RECURSIVE close_upvalues(_, _, _, _)
close_upvalues(U, stk, head, last) ==
    IF head # 0 /\ U[head].location >= last
    THEN close_upvalues([U EXCEPT ![head].closed = stk[U[head].location],
                                  ![head].location = Closed],
                        stk, U[head].next, last)
    ELSE [upvals |-> U, open_upvalues |-> head]

ExecGetUpvalue(slot, nip) ==
    PushStep(Deref(upvals, stack, closures[Frame.closure].upvalues[slot + 1]), nip)

ExecSetUpvalue(slot, nip) ==
    LET id == closures[Frame.closure].upvalues[slot + 1] IN
    /\ IF upvals[id].location = Closed
       THEN /\ upvals' = [upvals EXCEPT ![id].closed = peek(0)]
            /\ UNCHANGED stack
       ELSE /\ stack' = [stack EXCEPT ![upvals[id].location] = peek(0)]
            /\ UNCHANGED upvals
    /\ StepTo(nip)
    /\ UNCHANGED <<stack_top, open_upvalues, closures, strs, objects, freed, tableVars, chunk, scanner, ctlVars>>

ExecCloseUpvalue(nip) ==
    LET c == close_upvalues(upvals, stack, open_upvalues, stack_top - 1) IN
    /\ upvals' = c.upvals
    /\ open_upvalues' = c.open_upvalues
    /\ stack_top' = stack_top - 1
    /\ StepTo(nip)
    /\ UNCHANGED <<stack, closures, strs, objects, freed, tableVars, chunk, scanner, ctlVars>>

\* The loop of OP_CLOSURE over the (is_local, index) pairs from pair i on:
\* [upvalues, upvals, objects, open_upvalues]
RECURSIVE FillUpvalues(_, _, _)
FillUpvalues(pairs, i, st) ==
    IF i > Len(pairs) THEN st
    ELSE IF pairs[i].is_local = 1
    THEN LET c == capture_upvalue(st.upvals, st.objects, st.open_upvalues,
                                  Frame.slots + pairs[i].index)
         IN  FillUpvalues(pairs, i + 1,
                 [upvalues |-> [st.upvalues EXCEPT ![i] = c.id], upvals |-> c.upvals,
                  objects |-> c.objects, open_upvalues |-> c.open_upvalues])
    ELSE FillUpvalues(pairs, i + 1,
             [st EXCEPT !.upvalues[i] = closures[Frame.closure].upvalues[pairs[i].index + 1]])

\* nip is frame->ip after the last operand pair
ExecClosure(function, pairs, nip) ==
    LET n == new_closure(closures, objects, function)
        f == FillUpvalues(pairs, 1,
                 [upvalues |-> n.closures[n.id].upvalues, upvals |-> upvals,
                  objects |-> n.objects, open_upvalues |-> open_upvalues])
    IN  /\ closures' = [n.closures EXCEPT ![n.id].upvalues = f.upvalues]
        /\ upvals' = f.upvals
        /\ objects' = f.objects
        /\ freed' = freed
        /\ open_upvalues' = f.open_upvalues
        /\ stack' = [stack EXCEPT ![stack_top] = OBJ_VAL("closure", n.id)]
        /\ stack_top' = stack_top + 1
        /\ StepTo(nip)
        /\ UNCHANGED <<strs, tableVars, chunk, scanner, ctlVars>>

\* call without the comparison of arg_count with the arity.
call_any_arity(closure, arg_count) ==
    IF frame_count = FRAMES_MAX
    THEN [ok |-> FALSE, format |-> "Stack overflow.", args |-> <<>>]
    ELSE [ok |-> TRUE,
          frame |-> [closure |-> closure, ip |-> 0, slots |-> stack_top - arg_count - 1]]

\* call without the comparison of frame_count with FRAMES_MAX.
call_any_depth(closure, arg_count) ==
    LET arity == Functions[closures[closure].function].arity IN
    IF arg_count # arity
    THEN [ok |-> FALSE, format |-> "Expected %d arguments, but got %d.",
          args |-> <<arity, arg_count>>]
    ELSE [ok |-> TRUE,
          frame |-> [closure |-> closure, ip |-> 0, slots |-> stack_top - arg_count - 1]]

\* call: [ok, format, args] on an error, [ok, frame] for the frame it pushes
call(closure, arg_count) ==
    LET arity == Functions[closures[closure].function].arity IN
    IF arg_count # arity
    THEN [ok |-> FALSE, format |-> "Expected %d arguments, but got %d.",
          args |-> <<arity, arg_count>>]
    ELSE IF frame_count = FRAMES_MAX
    THEN [ok |-> FALSE, format |-> "Stack overflow.", args |-> <<>>]
    ELSE [ok |-> TRUE,
          frame |-> [closure |-> closure, ip |-> 0, slots |-> stack_top - arg_count - 1]]

\* What a native function may return for the arguments stack[args .. args + arg_count - 1].
NativeResults(native, arg_count, args) ==
    IF Natives[native] = "clock_native" THEN {NUMBER_VAL(n) : n \in 0..MaxNum}
    ELSE IF arg_count = 1 /\ ~IS_STRING(stack[args]) THEN {NUMBER_VAL(0)}
    ELSE IF arg_count \in {0, 1} THEN {NUMBER_VAL(n) : n \in 0..MaxNum}
    ELSE {NUMBER_VAL(0)}

\* OP_CALL whose native branch leaves the callee under the result
\* (vm.stack_top -= arg_count in place of arg_count + 1).
ExecCall_native_kept(arg_count, nip) ==
    LET callee == peek(arg_count) IN
    IF callee.t = "closure"
    THEN LET c == call(callee.v, arg_count) IN
         IF c.ok
         THEN /\ frames' = Append([frames EXCEPT ![Len(frames)].ip = nip], c.frame)
              /\ UNCHANGED <<stack, stack_top, open_upvalues, heapVars, tableVars,
                             chunk, scanner, ctlVars>>
         ELSE Fail(c.format, c.args)
    ELSE IF callee.t = "native"
    THEN \E r \in NativeResults(callee.v, arg_count, stack_top - arg_count) :
            /\ stack' = [stack EXCEPT ![stack_top - arg_count] = r]
            /\ stack_top' = stack_top - arg_count + 1
            /\ StepTo(nip)
            /\ UNCHANGED <<open_upvalues, heapVars, tableVars, chunk, scanner, ctlVars>>
    ELSE Fail("Can only call functions and classes.", <<>>)

\* OP_CALL: call_value(peek(arg_count), arg_count); nip is frame->ip after READ_BYTE
ExecCall(arg_count, nip) ==
    LET callee == peek(arg_count) IN
    IF callee.t = "closure"
    THEN LET c == call(callee.v, arg_count) IN
         IF c.ok
         THEN /\ frames' = Append([frames EXCEPT ![Len(frames)].ip = nip], c.frame)
              /\ UNCHANGED <<stack, stack_top, open_upvalues, heapVars, tableVars,
                             chunk, scanner, ctlVars>>
         ELSE Fail(c.format, c.args)
    ELSE IF callee.t = "native"
    THEN \E r \in NativeResults(callee.v, arg_count, stack_top - arg_count) :
            /\ stack' = [stack EXCEPT ![stack_top - arg_count - 1] = r]
            /\ stack_top' = stack_top - arg_count
            /\ StepTo(nip)
            /\ UNCHANGED <<open_upvalues, heapVars, tableVars, chunk, scanner, ctlVars>>
    ELSE Fail("Can only call functions and classes.", <<>>)

\* OP_RETURN that pushes the result without stack_top = frame->slots.
ExecReturn_without_unwinding ==
    LET c == close_upvalues(upvals, stack, open_upvalues, Frame.slots)
    IN  /\ upvals' = c.upvals
        /\ open_upvalues' = c.open_upvalues
        /\ frames' = SubSeq(frames, 1, Len(frames) - 1)
        /\ IF frame_count - 1 = 0
           THEN /\ stack_top' = stack_top - 2
                /\ result' = "INTERPRET_OK"
                /\ phase' = "idle"
           ELSE UNCHANGED <<stack_top, result, phase>>
        /\ UNCHANGED <<stack, closures, strs, objects, freed, tableVars, chunk, scanner, err, out>>

\* OP_RETURN
ExecReturn ==
    LET returned == stack[stack_top - 1]
        c == close_upvalues(upvals, stack, open_upvalues, Frame.slots)
    IN  /\ upvals' = c.upvals
        /\ open_upvalues' = c.open_upvalues
        /\ frames' = SubSeq(frames, 1, Len(frames) - 1)
        /\ IF frame_count - 1 = 0
           THEN /\ stack_top' = stack_top - 2
                /\ result' = "INTERPRET_OK"
                /\ phase' = "idle"
                /\ UNCHANGED stack
           ELSE /\ stack' = [stack EXCEPT ![Frame.slots] = returned]
                /\ stack_top' = Frame.slots + 1
                /\ UNCHANGED <<result, phase>>
        /\ UNCHANGED <<closures, strs, objects, freed, tableVars, chunk, scanner, err, out>>

----------------------------------------------------------------------------
(* The virtual machine under instruction streams.  init_vm has run; each   *)
(* Interpret step is one interpret call on the next source line (the       *)
(* REPL), and each Op step is one iteration of the dispatch loop of run()  *)
(* on an instruction that the frame's code may hold at its ip: the         *)
(* operands exist on the stack above the frame's slot 0, a local slot is a *)
(* live slot of the frame, an upvalue index is one of the closure's, a     *)
(* slot with an open upvalue is discarded by OP_CLOSE_UPVALUE or OP_RETURN *)
(* only, and the script returns at depth 1.  The code of a function is at  *)
(* most MaxIp bytes and straight-line; jumps are run from compiled chunks  *)
(* further below.                                                          *)

Str(chars) == [kind |-> "string", chars |-> chars, n |-> 0]
Num(n) == [kind |-> "number", chars |-> <<>>, n |-> n]

\* compile's make_constant calls for the literals lits, in order (a string
\* or identifier goes through copy_string): [strs, strings, objects, constants]
RECURSIVE CompileConstants(_, _, _)
CompileConstants(lits, i, st) ==
    IF i > Len(lits) THEN st
    ELSE IF lits[i].kind = "number"
    THEN CompileConstants(lits, i + 1,
             [st EXCEPT !.constants = Append(@, NUMBER_VAL(lits[i].n))])
    ELSE LET c == copy_string(st.strs, st.strings, st.objects, lits[i].chars) IN
         CompileConstants(lits, i + 1,
             [strs |-> c.strs, strings |-> c.strings, objects |-> c.objects,
              constants |-> Append(st.constants, OBJ_VAL("string", c.id))])

NoError == [format |-> "", args |-> <<>>]
NoChunk == [code |-> <<>>, lines |-> <<>>, capacity |-> 0, constants |-> <<>>]
\* The Scanner before a client has called init_scanner.
NoScanner == [source |-> <<>>, start |-> 0, current |-> 0, line |-> 0, tokens |-> <<>>]

Init ==
    /\ init_vm
    /\ chunk = NoChunk
    /\ scanner = NoScanner
    /\ phase = "idle"
    /\ result = "NONE"
    /\ err = NoError
    /\ out = <<>>

\* interpret(source) up to the call of run(), for a source that compiles to
\* function 1 with the constants of one of the pools.
InterpretOf(pools) ==
    /\ stack_top >= 0 /\ stack_top < STACK_SLOTS
    /\ Len(closures) < MaxClosures
    /\ \E lits \in pools :
        LET c == CompileConstants(lits, 1, [strs |-> strs, strings |-> strings,
                                            objects |-> objects, constants |-> <<>>])
            n == new_closure(closures, c.objects, 1)
        IN  /\ Len(c.strs) <= MaxStrings
            /\ strs' = c.strs
            /\ strings' = c.strings
            /\ chunk' = [NoChunk EXCEPT !.constants = c.constants]
            /\ UNCHANGED scanner
            /\ closures' = n.closures
            /\ objects' = n.objects
            /\ freed' = freed
            /\ stack' = [stack EXCEPT ![stack_top] = OBJ_VAL("closure", n.id)]
            /\ stack_top' = stack_top + 1
            /\ frames' = Append(frames, [closure |-> n.id, ip |-> 0, slots |-> stack_top])
    /\ phase' = "run"
    /\ result' = "NONE"
    /\ err' = NoError
    /\ out' = <<>>
    /\ UNCHANGED <<open_upvalues, upvals, globals>>

Running == phase = "run" /\ frames # <<>>
\* Values of the current frame above its slot 0.
Depth == stack_top - Frame.slots - 1
CanPush == stack_top < STACK_SLOTS
Fits(n) == Frame.ip + n <= MaxIp
\* Upvalues on the open list, head first.
RECURSIVE OpenList(_, _)
OpenList(U, head) == IF head = 0 THEN <<>> ELSE <<head>> \o OpenList(U, U[head].next)
\* None of the k topmost slots is captured by an open upvalue.
Uncaptured(k) ==
    \A i \in 1..Len(OpenList(upvals, open_upvalues)) :
        upvals[OpenList(upvals, open_upvalues)[i]].location < stack_top - k
InRange(n) == n >= -MaxNum /\ n <= MaxNum
StringConstants == {i \in 1..Len(chunk.constants) : IS_STRING(chunk.constants[i])}
\* The arithmetic the model explores: results in -MaxNum..MaxNum, exact quotients.
Explored(op, a, b) ==
    (IS_NUMBER(a) /\ IS_NUMBER(b)) =>
        IF op = "OP_ADD" THEN InRange(a.v + b.v)
        ELSE IF op = "OP_DIVIDE"
        THEN b.v # 0 /\ a.v % (IF b.v < 0 THEN -b.v ELSE b.v) = 0
        ELSE IS_NUMBER(Apply(op, a.v, b.v)) => InRange(Apply(op, a.v, b.v).v)
Binary(op) ==
    /\ Depth >= 2 /\ Uncaptured(2) /\ Fits(1)
    /\ Explored(op, peek(1), peek(0))
    /\ BINARY_OP(op, Frame.ip + 1)

OpConstant ==
    /\ Running /\ CanPush /\ Fits(2)
    /\ \E constant \in 1..Len(chunk.constants) :
          ExecConstant(chunk.constants[constant], Frame.ip + 2)

OpNil == Running /\ CanPush /\ Fits(1) /\ ExecLiteral(NIL_VAL, Frame.ip + 1)

OpTrue == Running /\ CanPush /\ Fits(1) /\ ExecLiteral(BOOL_VAL(TRUE), Frame.ip + 1)

OpFalse == Running /\ CanPush /\ Fits(1) /\ ExecLiteral(BOOL_VAL(FALSE), Frame.ip + 1)

OpPop == Running /\ Depth >= 1 /\ Uncaptured(1) /\ Fits(1) /\ ExecPop(Frame.ip + 1)

OpGetLocal ==
    /\ Running /\ CanPush /\ Fits(2)
    /\ \E slot \in 1..Depth : ExecGetLocal(slot, Frame.ip + 2)

OpSetLocal ==
    /\ Running /\ Fits(2)
    /\ \E slot \in 1..(Depth - 1) : ExecSetLocal(slot, Frame.ip + 2)

OpGetGlobal ==
    /\ Running /\ CanPush /\ Fits(2)
    /\ \E i \in StringConstants : ExecGetGlobal(chunk.constants[i].v, Frame.ip + 2)

OpDefineGlobal ==
    /\ Running /\ Depth >= 1 /\ Uncaptured(1) /\ Fits(2)
    /\ \E i \in StringConstants : ExecDefineGlobal(chunk.constants[i].v, Frame.ip + 2)

OpSetGlobal ==
    /\ Running /\ Depth >= 1 /\ Fits(2)
    /\ \E i \in StringConstants : ExecSetGlobal(chunk.constants[i].v, Frame.ip + 2)

OpEqual == Running /\ Depth >= 2 /\ Uncaptured(2) /\ Fits(1) /\ ExecEqual(Frame.ip + 1)

OpGreater == Running /\ Binary("OP_GREATER")

OpLess == Running /\ Binary("OP_LESS")

OpAdd ==
    /\ Running /\ Depth >= 2 /\ Uncaptured(2) /\ Fits(1)
    /\ Explored("OP_ADD", peek(1), peek(0))
    /\ (IS_STRING(peek(0)) /\ IS_STRING(peek(1))) =>
          \/ Len(strs) < MaxStrings
          \/ \E i \in 1..Len(strs) :
                strs[i].chars = strs[peek(1).v].chars \o strs[peek(0).v].chars
    /\ ExecAdd(Frame.ip + 1)

OpSubtract == Running /\ Binary("OP_SUBTRACT")

OpMultiply == Running /\ Binary("OP_MULTIPLY")

OpDivide == Running /\ Binary("OP_DIVIDE")

OpNot == Running /\ Depth >= 1 /\ Uncaptured(1) /\ Fits(1) /\ ExecNot(Frame.ip + 1)

OpNegate == Running /\ Depth >= 1 /\ Uncaptured(1) /\ Fits(1) /\ ExecNegate(Frame.ip + 1)

OpPrint ==
    /\ Running /\ Depth >= 1 /\ Uncaptured(1) /\ Fits(1) /\ Len(out) < MaxOut
    /\ ExecPrint(Frame.ip + 1)

OpCall ==
    /\ Running /\ Fits(2)
    /\ \E arg_count \in 0..MaxArgs :
          /\ Depth >= arg_count + 1
          /\ Uncaptured(arg_count + 1)
          /\ ExecCall(arg_count, Frame.ip + 2)

\* The operand pairs OP_CLOSURE may carry for function f in the current frame.
UpvaluePairs(f) ==
    LET pair == {[is_local |-> 1, index |-> i] : i \in 1..Depth}
                \cup {[is_local |-> 0, index |-> i - 1] :
                          i \in 1..Len(closures[Frame.closure].upvalues)}
    IN  [1..Functions[f].upvalue_count -> pair]

ClosureOf(fs) ==
    /\ CanPush
    /\ Len(closures) < MaxClosures
    /\ \E f \in fs :
          /\ Fits(2 + 2 * Functions[f].upvalue_count)
          /\ Len(upvals) + Functions[f].upvalue_count <= MaxUpvalues
          /\ \E pairs \in UpvaluePairs(f) :
                ExecClosure(f, pairs, Frame.ip + 2 + 2 * Functions[f].upvalue_count)

\* OP_CLOSURE of a function that captures nothing (a fun declaration whose
\* body names no enclosing local).
OpFunction == Running /\ ClosureOf({f \in 2..Len(Functions) : Functions[f].upvalue_count = 0})

OpClosure == Running /\ ClosureOf({f \in 2..Len(Functions) : Functions[f].upvalue_count > 0})

OpGetUpvalue ==
    /\ Running /\ CanPush /\ Fits(2)
    /\ \E slot \in 0..(Len(closures[Frame.closure].upvalues) - 1) :
          ExecGetUpvalue(slot, Frame.ip + 2)

OpSetUpvalue ==
    /\ Running /\ Depth >= 1 /\ Fits(2)
    /\ \E slot \in 0..(Len(closures[Frame.closure].upvalues) - 1) :
          ExecSetUpvalue(slot, Frame.ip + 2)

OpCloseUpvalue == Running /\ Depth >= 1 /\ Fits(1) /\ ExecCloseUpvalue(Frame.ip + 1)

OpReturn ==
    /\ Running /\ Depth >= 1
    /\ frame_count = 1 => Depth = 1
    /\ ExecReturn

----------------------------------------------------------------------------
(* Specifications.  Each explores the lines whose constants come from its  *)
(* pools and whose code uses the instructions of its Next.                 *)

\* Every instruction that can raise a runtime error, over strings, numbers,
\* natives and functions.
Interpret == phase = "idle" /\ InterpretOf({<<Str(<<98>>), Str(NativeNames[1])>>})

Next ==
    \/ Interpret
    \/ OpConstant
    \/ OpGetGlobal \/ OpSetGlobal
    \/ OpLess \/ OpAdd
    \/ OpNegate
    \/ OpFunction \/ OpCall
    \/ OpReturn

Spec == Init /\ [][Next]_vars

\* Arithmetic, comparison and equality over numbers, booleans, nil and strings.
InterpretArith == phase = "idle" /\ InterpretOf({<<Num(0), Num(1), Str(<<98>>)>>})

NextArith ==
    \/ InterpretArith
    \/ OpConstant \/ OpNil \/ OpTrue \/ OpFalse \/ OpPop
    \/ OpEqual \/ OpGreater \/ OpLess \/ OpAdd \/ OpSubtract \/ OpMultiply \/ OpDivide
    \/ OpNot \/ OpNegate \/ OpPrint
    \/ OpReturn

SpecArith == Init /\ [][NextArith]_vars

\* String literals and concatenation.
StringPools == {<<Str(a), Str(b)>> : a \in {<<>>, <<97>>, <<98>>}, b \in {<<>>, <<97>>, <<98>>}}

InterpretStrings == phase = "idle" /\ InterpretOf(StringPools)

NextStrings ==
    \/ InterpretStrings
    \/ OpConstant \/ OpPop \/ OpEqual \/ OpAdd
    \/ OpReturn

SpecStrings == Init /\ [][NextStrings]_vars

\* Global variables named a and b.
InterpretGlobals ==
    phase = "idle" /\ InterpretOf({<<Str(<<97>>), Str(<<98>>)>>})

NextGlobals ==
    \/ InterpretGlobals
    \/ OpNil \/ OpTrue \/ OpPop
    \/ OpGetGlobal \/ OpDefineGlobal \/ OpSetGlobal
    \/ OpReturn

SpecGlobals == Init /\ [][NextGlobals]_vars

\* Calls of functions, natives and other values.
InterpretCalls == phase = "idle" /\ InterpretOf({<<Num(1), Str(NativeNames[1])>>})

NextCalls ==
    \/ InterpretCalls
    \/ OpConstant \/ OpNil \/ OpPop \/ OpGetLocal \/ OpSetLocal
    \/ OpGetGlobal
    \/ OpFunction \/ OpCall
    \/ OpReturn

SpecCalls == Init /\ [][NextCalls]_vars

\* Calls of the two natives, with and without a string argument.
InterpretNatives ==
    phase = "idle" /\ InterpretOf({<<Str(NativeNames[2]), Str(NativeNames[1])>>})

NextNatives ==
    \/ InterpretNatives
    \/ OpConstant \/ OpNil \/ OpPop
    \/ OpGetGlobal
    \/ OpCall
    \/ OpReturn

SpecNatives == Init /\ [][NextNatives]_vars

\* Closures over local variables.
InterpretUpvalues == phase = "idle" /\ InterpretOf({<<Num(1)>>})

NextUpvalues ==
    \/ InterpretUpvalues
    \/ OpConstant \/ OpNil \/ OpTrue \/ OpPop
    \/ OpFunction \/ OpClosure \/ OpCall
    \/ OpGetUpvalue \/ OpSetUpvalue \/ OpCloseUpvalue
    \/ OpReturn

SpecUpvalues == Init /\ [][NextUpvalues]_vars

----------------------------------------------------------------------------
(* Chunks (chunk.h, chunk.c).                                              *)

OP_CONSTANT == 0
OP_CONSTANT_LONG == 1
OP_NIL == 2
OP_TRUE == 3
OP_FALSE == 4
OP_POP == 5
OP_GET_LOCAL == 6
OP_SET_LOCAL == 7
OP_GET_GLOBAL == 8
OP_DEFINE_GLOBAL == 9
OP_SET_GLOBAL == 10
OP_EQUAL == 11
OP_GREATER == 12
OP_LESS == 13
OP_NEGATE == 14
OP_PRINT == 15
OP_JUMP == 16
OP_JUMP_IF_FALSE == 17
OP_LOOP == 18
OP_ADD == 19
OP_SUBTRACT == 20
OP_MULTIPLY == 21
OP_DIVIDE == 22
OP_NOT == 23
OP_CALL == 24
OP_CLOSURE == 25
OP_GET_UPVALUE == 26
OP_SET_UPVALUE == 27
OP_CLOSE_UPVALUE == 28
OP_RETURN == 29

UINT8_MAX == 255
UINT8_COUNT == 256
UINT16_MAX == 65535

init_chunk == NoChunk

\* write_chunk that stores the line only when the arrays have grown.
write_chunk_line_on_growth(c, byte, line) ==
    [c EXCEPT !.capacity = IF c.capacity < Len(c.code) + 1 THEN GROW_CAPACITY(@) ELSE @,
              !.code = Append(@, byte),
              !.lines = IF c.capacity < Len(c.code) + 1 THEN Append(@, line) ELSE @]

write_chunk(c, byte, line) ==
    [c EXCEPT !.capacity = IF c.capacity < Len(c.code) + 1 THEN GROW_CAPACITY(@) ELSE @,
              !.code = Append(@, byte),
              !.lines = Append(@, line)]

\* [chunk, index]
add_constant(c, value) ==
    [chunk |-> [c EXCEPT !.constants = Append(@, value)], index |-> Len(c.constants)]

\* The bytes write_constant writes behind the opcode.
IndexBytes(constant_index) ==
    IF constant_index <= UINT8_MAX
    THEN <<OP_CONSTANT, constant_index % 256>>
    ELSE <<OP_CONSTANT_LONG, (constant_index \div 65536) % 256,
           (constant_index \div 256) % 256, constant_index % 256>>

RECURSIVE WriteBytes(_, _, _, _)
WriteBytes(c, bytes, i, line) ==
    IF i > Len(bytes) THEN c ELSE WriteBytes(write_chunk(c, bytes[i], line), bytes, i + 1, line)

WriteIndex(added, line) == WriteBytes(added.chunk, IndexBytes(added.index), 1, line)

write_constant(c, value, line) == WriteIndex(add_constant(c, value), line)

\* SpecChunk: a client of chunk.h writes a chunk, as main does for its
\* hand-written chunk.  The field calls of the chunk is history that no
\* function of chunk.c reads: the calls made on the chunk since init_chunk.
MaxCount == 9
MaxLine == 2

InitChunk ==
    /\ init_vm
    /\ chunk = [code |-> <<>>, lines |-> <<>>, capacity |-> 0, constants |-> <<>>,
                calls |-> <<>>]
    /\ scanner = NoScanner
    /\ phase = "idle"
    /\ result = "NONE"
    /\ err = NoError
    /\ out = <<>>

\* Lines a client passes: those of a source read front to back.
NextLines == {line \in 1..MaxLine : chunk.lines = <<>> \/ line >= chunk.lines[Len(chunk.lines)]}

WriteChunk ==
    /\ Len(chunk.code) + 1 <= MaxCount
    /\ \E byte \in {OP_NIL, OP_RETURN}, line \in NextLines :
          chunk' = [write_chunk(chunk, byte, line) EXCEPT
                       !.calls = Append(@, [bytes |-> <<byte>>, line |-> line])]
    /\ UNCHANGED <<stack, stack_top, frames, open_upvalues, heapVars, tableVars, scanner, ctlVars>>

WriteConstant ==
    /\ Len(chunk.code) + 2 <= MaxCount
    /\ \E line \in NextLines :
          chunk' = [write_constant(chunk, NUMBER_VAL(1), line) EXCEPT
                       !.calls = Append(@, [bytes |-> IndexBytes(Len(chunk.constants)),
                                            line |-> line])]
    /\ UNCHANGED <<stack, stack_top, frames, open_upvalues, heapVars, tableVars, scanner, ctlVars>>

NextChunk == WriteChunk \/ WriteConstant

SpecChunk == InitChunk /\ [][NextChunk]_vars

----------------------------------------------------------------------------
(* The compiler (compiler.c).  The state of the parser, of the Compiler    *)
(* and of the chunk being written travels through the parse functions as   *)
(* one record P; scan_token hands out the tokens of the source in order    *)
(* and TOKEN_EOF from its end on.  The fields opened, scopes and log of P  *)
(* are history that no parse function reads: the scopes begun and not yet  *)
(* ended; the scopes ended, each with the local_count and the chunk's      *)
(* count at begin_scope, at the call of end_scope and at its return; and   *)
(* the calls of error_at ("reported" on stderr, or "silent") and of        *)
(* synchronize, in order.  The field trail is history as well: the calls   *)
(* of error_at, synchronize and declaration in the order of their returns, *)
(* each with the position in the source, the type of the current token and *)
(* the two flags of the parser at the call and at the return.              *)

Token(type, lexeme, line) == [type |-> type, lexeme |-> lexeme, line |-> line, message |-> ""]
ErrorToken(message, line) ==
    [type |-> "TOKEN_ERROR", lexeme |-> <<>>, line |-> line, message |-> message]

\* [token, pos]
scan_token(P) ==
    IF P.pos < Len(P.tokens)
    THEN [token |-> P.tokens[P.pos + 1], pos |-> P.pos + 1]
    ELSE [token |-> P.tokens[Len(P.tokens)], pos |-> P.pos]

\* What the trail keeps of the parser.
Flags(P) ==
    [pos |-> P.pos, current |-> P.current.type,
     had_error |-> P.had_error, panic_mode |-> P.panic_mode]

\* The trail: op has taken the parser from P to Q.
Trailed(P, Q, op) ==
    [Q EXCEPT !.trail = Append(@, [op |-> op, from |-> Flags(P), to |-> Flags(Q)])]

\* error_at without the test of panic_mode: every error is printed.
error_at_in_panic_mode(P, token, message) ==
    [P EXCEPT !.panic_mode = TRUE,
              !.had_error = TRUE,
              !.log = Append(@, "reported"),
              !.errors = Append(@, [line |-> token.line,
                                    at |-> IF token.type = "TOKEN_EOF" THEN "end"
                                           ELSE IF token.type = "TOKEN_ERROR" THEN ""
                                           ELSE "lexeme",
                                    lexeme |-> token.lexeme,
                                    message |-> message])]

\* error_at without its last statement, parser.had_error = true.
error_at_without_had_error(P, token, message) ==
    Trailed(P,
        IF P.panic_mode THEN [P EXCEPT !.log = Append(@, "silent")]
        ELSE [P EXCEPT !.panic_mode = TRUE,
                       !.log = Append(@, "reported"),
                       !.errors = Append(@, [line |-> token.line,
                                             at |-> IF token.type = "TOKEN_EOF" THEN "end"
                                                    ELSE IF token.type = "TOKEN_ERROR" THEN ""
                                                    ELSE "lexeme",
                                             lexeme |-> token.lexeme,
                                             message |-> message])],
        "error_at")

error_at(P, token, message) ==
    Trailed(P,
        IF P.panic_mode THEN [P EXCEPT !.log = Append(@, "silent")]
        ELSE [P EXCEPT !.panic_mode = TRUE,
                       !.had_error = TRUE,
                       !.log = Append(@, "reported"),
                       !.errors = Append(@, [line |-> token.line,
                                             at |-> IF token.type = "TOKEN_EOF" THEN "end"
                                                    ELSE IF token.type = "TOKEN_ERROR" THEN ""
                                                    ELSE "lexeme",
                                             lexeme |-> token.lexeme,
                                             message |-> message])],
        "error_at")

error(P, message) == error_at(P, P.previous, message)

error_at_current(P, message) == error_at(P, P.current, message)

\* The for (;;) of advance.
RECURSIVE AdvanceLoop(_)
AdvanceLoop(P) ==
    LET s == scan_token(P)
        P1 == [P EXCEPT !.current = s.token, !.pos = s.pos]
    IN  IF s.token.type # "TOKEN_ERROR" THEN P1
        ELSE AdvanceLoop(error_at_current(P1, s.token.message))

advance(P) == AdvanceLoop([P EXCEPT !.previous = P.current])

consume(P, type, message) ==
    IF P.current.type = type THEN advance(P) ELSE error_at_current(P, message)

check(P, type) == P.current.type = type

\* match: the parser after it; its result is check(P, type)
match(P, type) == IF ~check(P, type) THEN P ELSE advance(P)

emit_byte(P, byte) == [P EXCEPT !.chunk = write_chunk(@, byte, P.previous.line)]

emit_bytes(P, byte1, byte2) == emit_byte(emit_byte(P, byte1), byte2)

emit_loop(P, loop_start) ==
    LET P1 == emit_byte(P, OP_LOOP)
        offset == Len(P1.chunk.code) - loop_start + 2
        P2 == IF offset > UINT16_MAX THEN error(P1, "Loop body too large.") ELSE P1
    IN  emit_byte(emit_byte(P2, (offset \div 256) % 256), offset % 256)

\* [P, offset]
emit_jump(P, instruction) ==
    LET P1 == emit_byte(emit_byte(emit_byte(P, instruction), 255), 255) IN
    [P |-> P1, offset |-> Len(P1.chunk.code) - 2]

emit_return(P) == emit_byte(P, OP_RETURN)

\* [P, index]
make_constant(P, value) ==
    LET a == add_constant(P.chunk, value) IN
    [P |-> [P EXCEPT !.chunk = a.chunk], index |-> a.index]

\* emit_constant that writes every index as the one byte of OP_CONSTANT.
emit_constant_short(P, value) ==
    LET m == make_constant(P, value) IN
    emit_bytes(m.P, OP_CONSTANT, m.index % 256)

emit_constant(P, value) ==
    LET m == make_constant(P, value) IN
    IF m.index <= UINT8_MAX
    THEN emit_bytes(m.P, OP_CONSTANT, m.index)
    ELSE emit_byte(emit_byte(emit_byte(emit_byte(m.P, OP_CONSTANT_LONG),
                                       (m.index \div 65536) % 256),
                             (m.index \div 256) % 256),
                   m.index % 256)

\* patch_jump without the - 2 for the operand itself.
patch_jump_from_operand(P, offset) ==
    LET jump_distance == Len(P.chunk.code) - offset
        P1 == IF jump_distance > UINT16_MAX THEN error(P, "Too much code to jump over.") ELSE P
    IN  [P1 EXCEPT !.chunk.code[offset + 1] = (jump_distance \div 256) % 256,
                   !.chunk.code[offset + 2] = jump_distance % 256]

patch_jump(P, offset) ==
    LET jump_distance == Len(P.chunk.code) - offset - 2
        P1 == IF jump_distance > UINT16_MAX THEN error(P, "Too much code to jump over.") ELSE P
    IN  [P1 EXCEPT !.chunk.code[offset + 1] = (jump_distance \div 256) % 256,
                   !.chunk.code[offset + 2] = jump_distance % 256]

\* init_compiler and the start of compile: nothing scanned, no locals, and the
\* strings of the VM that copy_string will intern into.
InitParser(tokens, c, S, T, O) ==
    [tokens |-> tokens, pos |-> 0,
     current |-> Token("TOKEN_EOF", <<>>, 0), previous |-> Token("TOKEN_EOF", <<>>, 0),
     had_error |-> FALSE, panic_mode |-> FALSE, errors |-> <<>>,
     chunk |-> c, locals |-> <<>>, scope_depth |-> 0,
     strs |-> S, strings |-> T, objects |-> O,
     opened |-> <<>>, scopes |-> <<>>, log |-> <<>>, history |-> <<>>, skips |-> <<>>,
     trail |-> <<>>]

\* The history of the locals: op has taken the parser from P to Q and was about
\* the local of index local (-1: none); the depths of the locals at its return,
\* and what it has passed to error_at.
Noted(P, Q, op, local) ==
    [Q EXCEPT !.history =
        Append(@, [op |-> op, local |-> local,
                   depths |-> [i \in 1..Len(Q.locals) |-> Q.locals[i].depth],
                   scope_depth |-> Q.scope_depth,
                   count |-> Len(Q.chunk.code),
                   calls |-> SubSeq(Q.log, Len(P.log) + 1, Len(Q.log)),
                   errors |-> SubSeq(Q.errors, Len(P.errors) + 1, Len(Q.errors))])]

end_compiler(P) == emit_return(P)

begin_scope(P) ==
    Noted(P, [P EXCEPT !.scope_depth = @ + 1,
                       !.opened = Append(@, [local_count |-> Len(P.locals),
                                             count |-> Len(P.chunk.code)])],
          "begin_scope", -1)

\* The while loop of end_scope with the emit_byte(OP_POP) left out.
RECURSIVE EndScopeLoop_without_pop(_)
EndScopeLoop_without_pop(P) ==
    IF Len(P.locals) > 0 /\ P.locals[Len(P.locals)].depth > P.scope_depth
    THEN EndScopeLoop_without_pop([P EXCEPT !.locals = SubSeq(@, 1, Len(@) - 1)])
    ELSE P

\* The while loop of end_scope.
RECURSIVE EndScopeLoop(_)
EndScopeLoop(P) ==
    IF Len(P.locals) > 0 /\ P.locals[Len(P.locals)].depth > P.scope_depth
    THEN EndScopeLoop([emit_byte(P, OP_POP) EXCEPT !.locals = SubSeq(@, 1, Len(@) - 1)])
    ELSE P

\* The history of a scope that end_scope has ended: P at the call, Q at the return.
Ended(P, Q) ==
    [Q EXCEPT !.opened = SubSeq(@, 1, Len(@) - 1),
              !.scopes = Append(@, [begin |-> P.opened[Len(P.opened)],
                                    call |-> [local_count |-> Len(P.locals),
                                              count |-> Len(P.chunk.code)],
                                    return |-> [local_count |-> Len(Q.locals),
                                                count |-> Len(Q.chunk.code)]])]

end_scope(P) ==
    Noted(P, Ended(P, EndScopeLoop([P EXCEPT !.scope_depth = @ - 1])), "end_scope", -1)

PREC_NONE == 0
PREC_ASSIGNMENT == 1
PREC_OR == 2
PREC_AND == 3
PREC_EQUALITY == 4
PREC_COMPARISON == 5
PREC_TERM == 6
PREC_FACTOR == 7
PREC_UNARY == 8
PREC_CALL == 9
PREC_PRIMARY == 10

ParseRule(prefix, infix, precedence) ==
    [prefix |-> prefix, infix |-> infix, precedence |-> precedence]

\* rules[type]; "" is nullptr
get_rule(type) ==
    CASE type = "TOKEN_LEFT_PAREN" -> ParseRule("grouping", "", PREC_NONE)
      [] type = "TOKEN_MINUS" -> ParseRule("unary", "binary", PREC_TERM)
      [] type = "TOKEN_PLUS" -> ParseRule("", "binary", PREC_TERM)
      [] type \in {"TOKEN_SLASH", "TOKEN_STAR"} -> ParseRule("", "binary", PREC_FACTOR)
      [] type = "TOKEN_BANG" -> ParseRule("unary", "", PREC_NONE)
      [] type \in {"TOKEN_BANG_EQUAL", "TOKEN_EQUAL_EQUAL"} ->
            ParseRule("", "binary", PREC_EQUALITY)
      [] type \in {"TOKEN_GREATER", "TOKEN_GREATER_EQUAL", "TOKEN_LESS", "TOKEN_LESS_EQUAL"} ->
            ParseRule("", "binary", PREC_COMPARISON)
      [] type = "TOKEN_IDENTIFIER" -> ParseRule("variable", "", PREC_NONE)
      [] type = "TOKEN_STRING" -> ParseRule("string", "", PREC_NONE)
      [] type = "TOKEN_NUMBER" -> ParseRule("number", "", PREC_NONE)
      [] type = "TOKEN_AND" -> ParseRule("", "and_", PREC_AND)
      [] type \in {"TOKEN_FALSE", "TOKEN_NIL", "TOKEN_TRUE"} -> ParseRule("literal", "", PREC_NONE)
      [] type = "TOKEN_OR" -> ParseRule("", "or_", PREC_NONE)
      [] OTHER -> ParseRule("", "", PREC_NONE)

\* strtod on the digits of a number token
RECURSIVE strtod(_)
strtod(chars) ==
    IF chars = <<>> THEN 0
    ELSE strtod(SubSeq(chars, 1, Len(chars) - 1)) * 10 + (chars[Len(chars)] - 48)

identifiers_equal(a, b) == a.lexeme = b.lexeme

\* The for loop of resolve_local from local i down: [P, index]
RECURSIVE ResolveFrom(_, _, _)
ResolveFrom(P, name, i) ==
    IF i < 1 THEN [P |-> Noted(P, P, "resolve_local", -1), index |-> -1]
    ELSE IF identifiers_equal(name, P.locals[i].name)
    THEN [P |-> Noted(P,
                      IF P.locals[i].depth = -1
                      THEN error(P, "Can't read local variable in its own initializer.")
                      ELSE P,
                      "resolve_local", i - 1),
          index |-> i - 1]
    ELSE ResolveFrom(P, name, i - 1)

resolve_local(P, name) == ResolveFrom(P, name, Len(P.locals))

\* The parser's record once copy_string has returned c: the strings of the VM.
Copied(P, c) == [P EXCEPT !.strs = c.strs, !.strings = c.strings, !.objects = c.objects]

\* return (uint8_t)constant_index
Uint8Index(m) == [P |-> m.P, index |-> m.index % 256]

\* make_constant(OBJ_VAL(c)) for the ObjString c that copy_string has returned
MakeStringConstant(P, c) == make_constant(Copied(P, c), OBJ_VAL("string", c.id))

\* [P, index]
identifier_constant(P, name) ==
    Uint8Index(MakeStringConstant(P, copy_string(P.strs, P.strings, P.objects,
                                                 name.lexeme)))

RECURSIVE parse_precedence(_, _)
RECURSIVE InfixLoop(_, _, _)
RECURSIVE Prefix(_, _, _)
RECURSIVE Infix(_, _)
RECURSIVE expression(_)
RECURSIVE binary(_)
RECURSIVE grouping(_)
RECURSIVE or_(_)
RECURSIVE and_(_)
RECURSIVE named_variable(_, _, _)
RECURSIVE unary(_)

\* The switch of binary with one instruction for each comparison operator.
BinaryOperator_without_not(P, operator_type) ==
    CASE operator_type = "TOKEN_BANG_EQUAL" -> emit_byte(P, OP_EQUAL)
      [] operator_type = "TOKEN_EQUAL_EQUAL" -> emit_byte(P, OP_EQUAL)
      [] operator_type = "TOKEN_GREATER" -> emit_byte(P, OP_GREATER)
      [] operator_type = "TOKEN_GREATER_EQUAL" -> emit_byte(P, OP_LESS)
      [] operator_type = "TOKEN_LESS" -> emit_byte(P, OP_LESS)
      [] operator_type = "TOKEN_LESS_EQUAL" -> emit_byte(P, OP_GREATER)
      [] operator_type = "TOKEN_PLUS" -> emit_byte(P, OP_ADD)
      [] operator_type = "TOKEN_MINUS" -> emit_byte(P, OP_SUBTRACT)
      [] operator_type = "TOKEN_STAR" -> emit_byte(P, OP_MULTIPLY)
      [] operator_type = "TOKEN_SLASH" -> emit_byte(P, OP_DIVIDE)
      [] OTHER -> P

\* The switch (operator_type) of binary.
BinaryOperator(P, operator_type) ==
    CASE operator_type = "TOKEN_BANG_EQUAL" -> emit_bytes(P, OP_EQUAL, OP_NOT)
      [] operator_type = "TOKEN_EQUAL_EQUAL" -> emit_byte(P, OP_EQUAL)
      [] operator_type = "TOKEN_GREATER" -> emit_byte(P, OP_GREATER)
      [] operator_type = "TOKEN_GREATER_EQUAL" -> emit_bytes(P, OP_LESS, OP_NOT)
      [] operator_type = "TOKEN_LESS" -> emit_byte(P, OP_LESS)
      [] operator_type = "TOKEN_LESS_EQUAL" -> emit_bytes(P, OP_GREATER, OP_NOT)
      [] operator_type = "TOKEN_PLUS" -> emit_byte(P, OP_ADD)
      [] operator_type = "TOKEN_MINUS" -> emit_byte(P, OP_SUBTRACT)
      [] operator_type = "TOKEN_STAR" -> emit_byte(P, OP_MULTIPLY)
      [] operator_type = "TOKEN_SLASH" -> emit_byte(P, OP_DIVIDE)
      [] OTHER -> P

\* binary that parses its right operand at the operator's own precedence.
binary_right_associative(P) ==
    BinaryOperator(parse_precedence(P, get_rule(P.previous.type).precedence),
                   P.previous.type)

binary(P) ==
    BinaryOperator(parse_precedence(P, get_rule(P.previous.type).precedence + 1),
                   P.previous.type)

literal(P) ==
    CASE P.previous.type = "TOKEN_FALSE" -> emit_byte(P, OP_FALSE)
      [] P.previous.type = "TOKEN_NIL" -> emit_byte(P, OP_NIL)
      [] P.previous.type = "TOKEN_TRUE" -> emit_byte(P, OP_TRUE)
      [] OTHER -> P

grouping(P) == consume(expression(P), "TOKEN_RIGHT_PAREN", "Expect ')' after expression.")

number(P) == emit_constant(P, NUMBER_VAL(strtod(P.previous.lexeme)))

or_(P) ==
    LET else_jump == emit_jump(P, OP_JUMP_IF_FALSE)
        end_jump == emit_jump(else_jump.P, OP_JUMP)
        P1 == emit_byte(patch_jump(end_jump.P, else_jump.offset), OP_POP)
    IN  patch_jump(parse_precedence(P1, PREC_OR), end_jump.offset)

\* and_ without the jump over the right operand.
and_without_jump(P) == parse_precedence(emit_byte(P, OP_POP), PREC_AND)

and_(P) ==
    LET end_jump == emit_jump(P, OP_JUMP_IF_FALSE)
        P1 == emit_byte(end_jump.P, OP_POP)
    IN  patch_jump(parse_precedence(P1, PREC_AND), end_jump.offset)

\* string: the lexeme without its quotes
\* emit_constant(OBJ_VAL(c)) for the ObjString c that copy_string has returned
EmitStringConstant(P, c) == emit_constant(Copied(P, c), OBJ_VAL("string", c.id))

string(P) ==
    EmitStringConstant(P, copy_string(P.strs, P.strings, P.objects,
                                      SubSeq(P.previous.lexeme, 2,
                                             Len(P.previous.lexeme) - 1)))

\* The if (can_assign and match(TOKEN_EQUAL)) of named_variable, arg = [P, index]
\* being what resolve_local or identifier_constant has returned.
NamedAccess(arg, get_op, set_op, can_assign) ==
    IF can_assign /\ check(arg.P, "TOKEN_EQUAL")
    THEN emit_bytes(expression(advance(arg.P)), set_op, arg.index)
    ELSE emit_bytes(arg.P, get_op, arg.index)

\* The if (arg != -1) of named_variable, arg = [P, index] from resolve_local.
NamedOps(arg, name, can_assign) ==
    IF arg.index # -1
    THEN NamedAccess(arg, OP_GET_LOCAL, OP_SET_LOCAL, can_assign)
    ELSE NamedAccess(identifier_constant(arg.P, name), OP_GET_GLOBAL, OP_SET_GLOBAL,
                     can_assign)

named_variable(P, name, can_assign) == NamedOps(resolve_local(P, name), name, can_assign)

variable(P, can_assign) == named_variable(P, P.previous, can_assign)

\* The switch (operator_type) of unary.
UnaryOperator(P, operator_type) ==
    CASE operator_type = "TOKEN_BANG" -> emit_byte(P, OP_NOT)
      [] operator_type = "TOKEN_MINUS" -> emit_byte(P, OP_NEGATE)
      [] OTHER -> P

unary(P) == UnaryOperator(parse_precedence(P, PREC_UNARY), P.previous.type)

\* prefix_rule(can_assign)
Prefix(P, rule, can_assign) ==
    CASE rule = "grouping" -> grouping(P)
      [] rule = "unary" -> unary(P)
      [] rule = "variable" -> variable(P, can_assign)
      [] rule = "string" -> string(P)
      [] rule = "number" -> number(P)
      [] rule = "literal" -> literal(P)

\* infix_rule = get_rule(parser.previous.type)->infix; infix_rule(can_assign)
Infix(P, can_assign) ==
    CASE get_rule(P.previous.type).infix = "binary" -> binary(P)
      [] get_rule(P.previous.type).infix = "and_" -> and_(P)
      [] get_rule(P.previous.type).infix = "or_" -> or_(P)

\* if (can_assign and match(TOKEN_EQUAL)) error("Invalid assignment target.")
InvalidTarget(P, can_assign) ==
    IF can_assign /\ check(P, "TOKEN_EQUAL")
    THEN error(advance(P), "Invalid assignment target.")
    ELSE P

\* The while loop of parse_precedence.
InfixLoop(P, precedence, can_assign) ==
    IF precedence <= get_rule(P.current.type).precedence
    THEN InfixLoop(InvalidTarget(Infix(advance(P), can_assign), can_assign),
                   precedence, can_assign)
    ELSE P

\* parse_precedence that, as long as no error has been reported, tests the
\* rule of the current token and reports at it, before advance.
parse_precedence_testing_current(P, precedence) ==
    IF ~P.had_error /\ get_rule(P.current.type).prefix = ""
    THEN error_at_current(P, "Expect expression.")
    ELSE LET P1 == advance(P)
             prefix_rule == get_rule(P1.previous.type).prefix
         IN  IF prefix_rule = ""
             THEN error(P1, "Expect expression.")
             ELSE InfixLoop(Prefix(P1, prefix_rule, precedence <= PREC_ASSIGNMENT),
                            precedence, precedence <= PREC_ASSIGNMENT)

parse_precedence(P, precedence) ==
    LET P1 == advance(P)
        prefix_rule == get_rule(P1.previous.type).prefix
    IN  IF prefix_rule = ""
        THEN error(P1, "Expect expression.")
        ELSE InfixLoop(Prefix(P1, prefix_rule, precedence <= PREC_ASSIGNMENT),
                       precedence, precedence <= PREC_ASSIGNMENT)

expression(P) == parse_precedence(P, PREC_ASSIGNMENT)

\* add_local with the local initialized at once: depth = scope_depth.
add_local_initialized(P, name) ==
    IF Len(P.locals) = UINT8_COUNT
    THEN error(P, "Too many local variables in function.")
    ELSE Noted(P, [P EXCEPT !.locals = Append(@, [name |-> name, depth |-> P.scope_depth])],
               "add_local", Len(P.locals))

add_local(P, name) ==
    IF Len(P.locals) = UINT8_COUNT
    THEN error(P, "Too many local variables in function.")
    ELSE Noted(P, [P EXCEPT !.locals = Append(@, [name |-> name, depth |-> -1])],
               "add_local", Len(P.locals))

\* The for loop of declare_variable without the break at a local of an
\* enclosing scope.
RECURSIVE DeclareFrom_through_scopes(_, _, _)
DeclareFrom_through_scopes(P, name, i) ==
    IF i < 1 THEN P
    ELSE DeclareFrom_through_scopes(
             IF identifiers_equal(name, P.locals[i].name)
             THEN error(P, "Already a variable with this name in this scope.")
             ELSE P,
             name, i - 1)

\* The for loop of declare_variable from local i down.
RECURSIVE DeclareFrom(_, _, _)
DeclareFrom(P, name, i) ==
    IF i < 1 THEN P
    ELSE IF P.locals[i].depth # -1 /\ P.locals[i].depth < P.scope_depth THEN P
    ELSE DeclareFrom(IF identifiers_equal(name, P.locals[i].name)
                     THEN error(P, "Already a variable with this name in this scope.")
                     ELSE P,
                     name, i - 1)

declare_variable(P) ==
    IF P.scope_depth = 0 THEN P
    ELSE add_local(DeclareFrom(P, P.previous, Len(P.locals)), P.previous)

\* The return of parse_variable: 0 for a local, else identifier_constant.
VariableIndex(P) ==
    IF P.scope_depth > 0 THEN [P |-> P, index |-> 0]
    ELSE identifier_constant(P, P.previous)

\* [P, index]
parse_variable(P, error_message) ==
    VariableIndex(declare_variable(consume(P, "TOKEN_IDENTIFIER", error_message)))

mark_initialized(P) ==
    Noted(P, [P EXCEPT !.locals[Len(P.locals)].depth = P.scope_depth],
          "mark_initialized", Len(P.locals) - 1)

define_variable(P, global) ==
    IF P.scope_depth > 0 THEN mark_initialized(P)
    ELSE emit_bytes(P, OP_DEFINE_GLOBAL, global)

RECURSIVE block(_)
RECURSIVE for_statement(_)
RECURSIVE if_statement(_)
RECURSIVE while_statement(_)
RECURSIVE declaration(_)
RECURSIVE statement(_)

block(P) ==
    IF ~check(P, "TOKEN_RIGHT_BRACE") /\ ~check(P, "TOKEN_EOF")
    THEN block(declaration(P))
    ELSE consume(P, "TOKEN_RIGHT_BRACE", "Expect '}' after block.")

\* The initializer of var_declaration.
VarInitializer(P) ==
    IF check(P, "TOKEN_EQUAL") THEN expression(advance(P)) ELSE emit_byte(P, OP_NIL)

\* var_declaration once parse_variable has returned global = [P, index]
VarDefine(global) ==
    define_variable(consume(VarInitializer(global.P), "TOKEN_SEMICOLON",
                            "Expect ';' after variable declaration."),
                    global.index)

var_declaration(P) == VarDefine(parse_variable(P, "Expect variable name"))

expression_statement(P) ==
    emit_byte(consume(expression(P), "TOKEN_SEMICOLON", "Expect ';' after expression."),
              OP_POP)

\* The initializer clause of for_statement.
ForInitializer(P) ==
    IF check(P, "TOKEN_SEMICOLON") THEN advance(P)
    ELSE IF check(P, "TOKEN_VAR") THEN var_declaration(advance(P))
    ELSE expression_statement(P)

\* emit_byte(OP_POP) after exit_jump = emit_jump(...): [P, offset]
PopCondition(jump) == [P |-> emit_byte(jump.P, OP_POP), offset |-> jump.offset]

\* The condition clause of for_statement: [P, offset], offset being exit_jump.
ForCondition(P) ==
    IF check(P, "TOKEN_SEMICOLON") THEN [P |-> advance(P), offset |-> -1]
    ELSE PopCondition(emit_jump(consume(expression(P), "TOKEN_SEMICOLON",
                                        "Expect ';' after loop condition."),
                                OP_JUMP_IF_FALSE))

\* The increment clause of for_statement once body_jump = [P, offset] is emitted:
\* [P, loop_start], loop_start being increment_start.
ForIncrementClause(body_jump, loop_start) ==
    [P |-> patch_jump(emit_loop(consume(emit_byte(expression(body_jump.P), OP_POP),
                                        "TOKEN_RIGHT_PAREN",
                                        "Expect ')' after for clauses."),
                                loop_start),
                      body_jump.offset),
     loop_start |-> Len(body_jump.P.chunk.code)]

\* ForIncrement whose body loops back to the condition, past the increment.
ForIncrement_unlinked(P, loop_start) ==
    IF check(P, "TOKEN_RIGHT_PAREN") THEN [P |-> advance(P), loop_start |-> loop_start]
    ELSE [P |-> ForIncrementClause(emit_jump(P, OP_JUMP), loop_start).P,
          loop_start |-> loop_start]

\* if (not match(TOKEN_RIGHT_PAREN)) of for_statement: [P, loop_start]
ForIncrement(P, loop_start) ==
    IF check(P, "TOKEN_RIGHT_PAREN") THEN [P |-> advance(P), loop_start |-> loop_start]
    ELSE ForIncrementClause(emit_jump(P, OP_JUMP), loop_start)

\* if (exit_jump != -1) of for_statement, and end_scope.
ForExit(P, exit_jump) ==
    end_scope(IF exit_jump # -1 THEN emit_byte(patch_jump(P, exit_jump), OP_POP) ELSE P)

\* The body of for_statement, increment = [P, loop_start].
ForBody(increment, exit_jump) ==
    ForExit(emit_loop(statement(increment.P), increment.loop_start), exit_jump)

\* for_statement from the increment clause on, condition = [P, offset].
ForClauses(condition, loop_start) ==
    ForBody(ForIncrement(condition.P, loop_start), condition.offset)

\* for_statement from loop_start = current_chunk()->count on.
ForLoop(P) == ForClauses(ForCondition(P), Len(P.chunk.code))

for_statement(P) ==
    ForLoop(ForInitializer(consume(begin_scope(P), "TOKEN_LEFT_PAREN",
                                   "Expect '(' after 'for'.")))

\* if (match(TOKEN_ELSE)) statement()
IfElse(P) == IF check(P, "TOKEN_ELSE") THEN statement(advance(P)) ELSE P

\* if_statement from patch_jump(then_jump) on, else_jump = [P, offset].
IfPatch(else_jump, then_jump) ==
    patch_jump(IfElse(emit_byte(patch_jump(else_jump.P, then_jump), OP_POP)),
               else_jump.offset)

\* if_statement once then_jump = [P, offset] is emitted.
IfThen(then_jump) ==
    IfPatch(emit_jump(statement(emit_byte(then_jump.P, OP_POP)), OP_JUMP),
            then_jump.offset)

if_statement(P) ==
    IfThen(emit_jump(consume(expression(consume(P, "TOKEN_LEFT_PAREN",
                                                "Expect '(' after 'if'.")),
                             "TOKEN_RIGHT_PAREN", "Expect ')' after 'if'."),
                     OP_JUMP_IF_FALSE))

print_statement(P) ==
    emit_byte(consume(expression(P), "TOKEN_SEMICOLON", "Expect ';' after value."), OP_PRINT)

\* while_statement once exit_jump = [P, offset] is emitted.
WhileBody(exit_jump, loop_start) ==
    emit_byte(patch_jump(emit_loop(statement(emit_byte(exit_jump.P, OP_POP)), loop_start),
                         exit_jump.offset),
              OP_POP)

while_statement(P) ==
    WhileBody(emit_jump(consume(expression(consume(P, "TOKEN_LEFT_PAREN",
                                                   "Expect '(' after 'while'.")),
                                "TOKEN_RIGHT_PAREN", "Expect ')' after condition."),
                        OP_JUMP_IF_FALSE),
              Len(P.chunk.code))

\* The while loop of synchronize without the return behind a semicolon.
RECURSIVE SynchronizeLoop_past_semicolon(_)
SynchronizeLoop_past_semicolon(P) ==
    IF P.current.type = "TOKEN_EOF" THEN P
    ELSE IF P.current.type \in {"TOKEN_CLASS", "TOKEN_FUN", "TOKEN_VAR", "TOKEN_FOR",
                                "TOKEN_IF", "TOKEN_WHILE", "TOKEN_PRINT", "TOKEN_RETURN"}
    THEN P
    ELSE SynchronizeLoop_past_semicolon(advance(P))

\* The while loop of synchronize.
RECURSIVE SynchronizeLoop(_)
SynchronizeLoop(P) ==
    IF P.current.type = "TOKEN_EOF" THEN P
    ELSE IF P.previous.type = "TOKEN_SEMICOLON" THEN P
    ELSE IF P.current.type \in {"TOKEN_CLASS", "TOKEN_FUN", "TOKEN_VAR", "TOKEN_FOR",
                                "TOKEN_IF", "TOKEN_WHILE", "TOKEN_PRINT", "TOKEN_RETURN"}
    THEN P
    ELSE SynchronizeLoop(advance(P))

\* The history of synchronize: a call has taken the parser from P to Q.
Skipped(P, Q) ==
    [Q EXCEPT !.skips =
        Append(@, [from |-> [pos |-> P.pos, previous |-> P.previous, current |-> P.current],
                   to |-> [pos |-> Q.pos, previous |-> Q.previous, current |-> Q.current,
                           panic_mode |-> Q.panic_mode],
                   count |-> <<Len(P.chunk.code), Len(Q.chunk.code)>>,
                   errors |-> SubSeq(Q.errors, Len(P.errors) + 1, Len(Q.errors))])]

synchronize(P) ==
    Trailed(P, Skipped(P, SynchronizeLoop([P EXCEPT !.panic_mode = FALSE,
                                                    !.log = Append(@, "synchronize")])),
            "synchronize")

\* if (parser.panic_mode) synchronize()
Synchronized(P) == IF P.panic_mode THEN synchronize(P) ELSE P

declaration(P) ==
    Trailed(P, Synchronized(IF check(P, "TOKEN_VAR") THEN var_declaration(advance(P))
                            ELSE statement(P)),
            "declaration")

statement(P) ==
    IF check(P, "TOKEN_PRINT") THEN print_statement(advance(P))
    ELSE IF check(P, "TOKEN_FOR") THEN for_statement(advance(P))
    ELSE IF check(P, "TOKEN_IF") THEN if_statement(advance(P))
    ELSE IF check(P, "TOKEN_WHILE") THEN while_statement(advance(P))
    ELSE IF check(P, "TOKEN_LEFT_BRACE") THEN end_scope(block(begin_scope(advance(P))))
    ELSE expression_statement(P)

\* The while (not match(TOKEN_EOF)) loop of compile.
RECURSIVE CompileLoop(_)
CompileLoop(P) == IF check(P, "TOKEN_EOF") THEN advance(P) ELSE CompileLoop(declaration(P))

\* compile(source, chunk) on the tokens of the source: the parser at its end;
\* the result of compile is ~had_error.
compile(tokens, c, S, T, O) ==
    end_compiler(consume(CompileLoop(advance(InitParser(tokens, c, S, T, O))),
                         "TOKEN_EOF", "Except end of expression."))

----------------------------------------------------------------------------
(* The scanner (scanner.c).  A source is its characters as ASCII codes; the *)
(* terminating '\0' is read behind its end.  scanner.start and              *)
(* scanner.current are offsets into the source.  The field tokens of the   *)
(* scanner is history that no function of scanner.c reads: the tokens      *)
(* scan_token has returned since init_scanner.                             *)

CharAt(sc, i) == IF i < Len(sc.source) THEN sc.source[i + 1] ELSE 0

is_at_end(sc) == CharAt(sc, sc.current) = 0

make_token(sc, type) == Token(type, SubSeq(sc.source, sc.start + 1, sc.current), sc.line)

error_token(sc, message) == ErrorToken(message, sc.line)

\* advance of scanner.c, for its effect on the scanner
Consume(sc) == [sc EXCEPT !.current = @ + 1]

\* peek of scanner.c
Peek(sc) == CharAt(sc, sc.current)

peek_next(sc) == IF is_at_end(sc) THEN 0 ELSE CharAt(sc, sc.current + 1)

\* while (peek() != '\n' and not is_at_end()) advance()
RECURSIVE SkipComment(_)
SkipComment(sc) ==
    IF Peek(sc) # 10 /\ ~is_at_end(sc) THEN SkipComment(Consume(sc)) ELSE sc

\* The case '/' of skip_whitespace has no break behind its if statement:
\* control falls from the skipped comment into default: return.
RECURSIVE skip_whitespace(_)
skip_whitespace(sc) ==
    CASE Peek(sc) \in {32, 13, 9} -> skip_whitespace(Consume(sc))
      [] Peek(sc) = 10 -> skip_whitespace(Consume([sc EXCEPT !.line = @ + 1]))
      [] Peek(sc) = 47 -> IF peek_next(sc) = 47 THEN SkipComment(sc) ELSE sc
      [] OTHER -> sc

is_digit(c) == c >= 48 /\ c <= 57

is_alpha(c) == (c >= 97 /\ c <= 122) \/ (c >= 65 /\ c <= 90) \/ c = 95

\* [token, scanner]
Returned(sc, token) == [token |-> token, scanner |-> sc]

\* string of scanner.c
RECURSIVE ScanString(_)
ScanString(sc) ==
    IF Peek(sc) # 34 /\ ~is_at_end(sc)
    THEN ScanString(Consume(IF Peek(sc) = 10 THEN [sc EXCEPT !.line = @ + 1] ELSE sc))
    ELSE IF is_at_end(sc)
    THEN Returned(sc, error_token(sc, "Unterminated string literal."))
    ELSE Returned(Consume(sc), make_token(Consume(sc), "TOKEN_STRING"))

RECURSIVE Digits(_)
Digits(sc) == IF is_digit(Peek(sc)) THEN Digits(Consume(sc)) ELSE sc

Fraction(sc) ==
    IF Peek(sc) = 46 /\ is_digit(peek_next(sc)) THEN Digits(Consume(sc)) ELSE sc

\* number of scanner.c
ScanNumber(sc) == Returned(Fraction(Digits(sc)), make_token(Fraction(Digits(sc)), "TOKEN_NUMBER"))

check_keyword(sc, start, length, rest, type) ==
    IF sc.current - sc.start = start + length
       /\ SubSeq(sc.source, sc.start + start + 1, sc.start + start + length) = rest
    THEN type ELSE "TOKEN_IDENTIFIER"

identifier_type(sc) ==
    CASE CharAt(sc, sc.start) = 97 -> check_keyword(sc, 1, 2, <<110, 100>>, "TOKEN_AND")
      [] CharAt(sc, sc.start) = 99 -> check_keyword(sc, 1, 4, <<108, 97, 115, 115>>, "TOKEN_CLASS")
      [] CharAt(sc, sc.start) = 101 -> check_keyword(sc, 1, 3, <<108, 115, 101>>, "TOKEN_ELSE")
      [] CharAt(sc, sc.start) = 102 /\ sc.current - sc.start > 1 ->
            CASE CharAt(sc, sc.start + 1) = 97 -> check_keyword(sc, 2, 3, <<108, 115, 101>>, "TOKEN_FALSE")
              [] CharAt(sc, sc.start + 1) = 111 -> check_keyword(sc, 2, 1, <<114>>, "TOKEN_FOR")
              [] CharAt(sc, sc.start + 1) = 117 -> check_keyword(sc, 2, 1, <<110>>, "TOKEN_FUN")
              [] OTHER -> "TOKEN_IDENTIFIER"
      [] CharAt(sc, sc.start) = 105 -> check_keyword(sc, 1, 1, <<102>>, "TOKEN_IF")
      [] CharAt(sc, sc.start) = 110 -> check_keyword(sc, 1, 2, <<105, 108>>, "TOKEN_NIL")
      [] CharAt(sc, sc.start) = 111 -> check_keyword(sc, 1, 1, <<114>>, "TOKEN_OR")
      [] CharAt(sc, sc.start) = 112 -> check_keyword(sc, 1, 4, <<114, 105, 110, 116>>, "TOKEN_PRINT")
      [] CharAt(sc, sc.start) = 114 -> check_keyword(sc, 1, 5, <<101, 116, 117, 114, 110>>, "TOKEN_RETURN")
      [] CharAt(sc, sc.start) = 115 -> check_keyword(sc, 1, 4, <<117, 112, 101, 114>>, "TOKEN_SUPER")
      [] CharAt(sc, sc.start) = 116 /\ sc.current - sc.start > 1 ->
            CASE CharAt(sc, sc.start + 1) = 104 -> check_keyword(sc, 2, 2, <<105, 115>>, "TOKEN_THIS")
              [] CharAt(sc, sc.start + 1) = 114 -> check_keyword(sc, 2, 2, <<117, 101>>, "TOKEN_TRUE")
              [] OTHER -> "TOKEN_IDENTIFIER"
      [] CharAt(sc, sc.start) = 118 -> check_keyword(sc, 1, 2, <<97, 114>>, "TOKEN_VAR")
      [] CharAt(sc, sc.start) = 119 -> check_keyword(sc, 1, 4, <<104, 105, 108, 101>>, "TOKEN_WHILE")
      [] OTHER -> "TOKEN_IDENTIFIER"

RECURSIVE AlphaNumerics(_)
AlphaNumerics(sc) ==
    IF is_alpha(Peek(sc)) \/ is_digit(Peek(sc)) THEN AlphaNumerics(Consume(sc)) ELSE sc

Identified(sc) == Returned(sc, make_token(sc, identifier_type(sc)))

\* identifier of scanner.c
ScanIdentifier(sc) == Identified(AlphaNumerics(sc))

\* match of scanner.c: [matched, scanner]
Match(sc, expected) ==
    IF is_at_end(sc) \/ Peek(sc) # expected
    THEN [matched |-> FALSE, scanner |-> sc]
    ELSE [matched |-> TRUE, scanner |-> Consume(sc)]

OneOrTwo(m, type, type_equal) ==
    Returned(m.scanner, make_token(m.scanner, IF m.matched THEN type_equal ELSE type))

\* scan_token behind c = advance(), for the character c
Classified(sc, c) ==
    IF is_alpha(c) THEN ScanIdentifier(sc)
    ELSE IF is_digit(c) THEN ScanNumber(sc)
    ELSE CASE c = 40 -> Returned(sc, make_token(sc, "TOKEN_LEFT_PAREN"))
           [] c = 41 -> Returned(sc, make_token(sc, "TOKEN_RIGHT_PAREN"))
           [] c = 123 -> Returned(sc, make_token(sc, "TOKEN_LEFT_BRACE"))
           [] c = 125 -> Returned(sc, make_token(sc, "TOKEN_RIGHT_BRACE"))
           [] c = 59 -> Returned(sc, make_token(sc, "TOKEN_SEMICOLON"))
           [] c = 44 -> Returned(sc, make_token(sc, "TOKEN_COMMA"))
           [] c = 46 -> Returned(sc, make_token(sc, "TOKEN_DOT"))
           [] c = 45 -> Returned(sc, make_token(sc, "TOKEN_MINUS"))
           [] c = 43 -> Returned(sc, make_token(sc, "TOKEN_PLUS"))
           [] c = 47 -> Returned(sc, make_token(sc, "TOKEN_SLASH"))
           [] c = 42 -> Returned(sc, make_token(sc, "TOKEN_STAR"))
           [] c = 33 -> OneOrTwo(Match(sc, 61), "TOKEN_BANG", "TOKEN_BANG_EQUAL")
           [] c = 61 -> OneOrTwo(Match(sc, 61), "TOKEN_EQUAL", "TOKEN_EQUAL_EQUAL")
           [] c = 60 -> OneOrTwo(Match(sc, 61), "TOKEN_LESS", "TOKEN_LESS_EQUAL")
           [] c = 62 -> OneOrTwo(Match(sc, 61), "TOKEN_GREATER", "TOKEN_GREATER_EQUAL")
           [] c = 34 -> ScanString(sc)
           [] OTHER -> Returned(sc, error_token(sc, "Unexpected character."))

\* scan_token behind skip_whitespace and scanner.start = scanner.current
Started(sc) ==
    IF is_at_end(sc) THEN Returned(sc, make_token(sc, "TOKEN_EOF"))
    ELSE Classified(Consume(sc), Peek(sc))

StartAtCurrent(sc) == Started([sc EXCEPT !.start = sc.current])

\* scan_token of scanner.c on the characters of the source: [token, scanner]
ScanTokenOf(sc) == StartAtCurrent(skip_whitespace(sc))

init_scanner(source) ==
    [source |-> source, start |-> 0, current |-> 0, line |-> 1, tokens |-> <<>>]

\* SpecScan: a client calls init_scanner on a source and scan_token until it
\* has returned TOKEN_EOF, as compile does through advance.
MaxSource == 4
Alphabet == {47, 10, 32, 49, 97}
RECURSIVE Texts(_)
Texts(n) ==
    IF n = 0 THEN {<<>>}
    ELSE Texts(n - 1) \cup {Append(text, c) : text \in Texts(n - 1), c \in Alphabet}
ScanSources ==
    Texts(MaxSource)
        \cup { <<111, 114, 47, 47, 32, 111, 10, 34, 98, 34, 33, 61, 49, 46, 53>>,
               <<116, 114, 117, 101, 59, 47, 47>> }

InitScan ==
    /\ init_vm
    /\ chunk = NoChunk
    /\ scanner = NoScanner
    /\ phase = "idle"
    /\ result = "NONE"
    /\ err = NoError
    /\ out = <<>>

InitScanner ==
    /\ scanner = NoScanner
    /\ \E source \in ScanSources : scanner' = init_scanner(source)
    /\ UNCHANGED <<stack, stack_top, frames, open_upvalues, heapVars, tableVars, chunk, ctlVars>>

Recorded(r) == [r.scanner EXCEPT !.tokens = Append(@, r.token)]

ScanToken ==
    /\ scanner # NoScanner
    /\ ~(scanner.tokens # <<>> /\ scanner.tokens[Len(scanner.tokens)].type = "TOKEN_EOF")
    /\ scanner' = Recorded(ScanTokenOf(scanner))
    /\ UNCHANGED <<stack, stack_top, frames, open_upvalues, heapVars, tableVars, chunk, ctlVars>>

NextScan == InitScanner \/ ScanToken

SpecScan == InitScan /\ [][NextScan]_vars

----------------------------------------------------------------------------
(* SpecProg: interpret on the sources of Sources, one line after another:  *)
(* compile writes the chunk, and run() fetches and decodes its bytes.      *)

K(type) == Token(type, <<>>, 1)
Id(char) == Token("TOKEN_IDENTIFIER", <<char>>, 1)
Nmb(n) == Token("TOKEN_NUMBER", <<48 + n>>, 1)
Lit(chars) == Token("TOKEN_STRING", <<34>> \o chars \o <<34>>, 1)
Semi == K("TOKEN_SEMICOLON")
PrintOf(expr) == <<K("TOKEN_PRINT")>> \o expr \o <<Semi>>
Var(char, expr) == <<K("TOKEN_VAR"), Id(char), K("TOKEN_EQUAL")>> \o expr \o <<Semi>>
Assign(char, expr) == <<Id(char), K("TOKEN_EQUAL")>> \o expr \o <<Semi>>
Block(stmts) == <<K("TOKEN_LEFT_BRACE")>> \o stmts \o <<K("TOKEN_RIGHT_BRACE")>>
Bin(a, op, b) == a \o <<K(op)>> \o b
Paren(expr) == <<K("TOKEN_LEFT_PAREN")>> \o expr \o <<K("TOKEN_RIGHT_PAREN")>>

\* Statements that compile.
Statements ==
    { <<>>,
      PrintOf(<<Nmb(1)>>),
      PrintOf(Bin(<<Nmb(0)>>, "TOKEN_PLUS", <<Nmb(1)>>)),
      PrintOf(Bin(<<Nmb(1)>>, "TOKEN_MINUS", Bin(<<Nmb(1)>>, "TOKEN_STAR", <<Nmb(0)>>))),
      PrintOf(Bin(<<Nmb(0)>>, "TOKEN_SLASH", <<Nmb(1)>>)),
      PrintOf(Bin(<<Nmb(0)>>, "TOKEN_LESS", <<Nmb(1)>>)),
      PrintOf(Bin(<<Nmb(0)>>, "TOKEN_LESS_EQUAL", <<Nmb(1)>>)),
      PrintOf(Bin(<<K("TOKEN_NIL")>>, "TOKEN_BANG_EQUAL", <<K("TOKEN_FALSE")>>)),
      PrintOf(<<K("TOKEN_MINUS"), K("TOKEN_NIL")>>),
      PrintOf(Bin(<<Lit(<<97>>)>>, "TOKEN_PLUS", <<Lit(<<98>>)>>)),
      PrintOf(Bin(<<K("TOKEN_NIL")>>, "TOKEN_AND", <<Nmb(1)>>)),
      PrintOf(Paren(Bin(<<Nmb(1)>>, "TOKEN_EQUAL_EQUAL", <<Nmb(1)>>))),
      PrintOf(<<Id(97)>>),
      Var(97, <<Nmb(1)>>),
      Assign(97, <<Nmb(0)>>),
      Block(Var(97, <<Nmb(1)>>)),
      Block(Var(97, <<Nmb(1)>>) \o PrintOf(<<Id(97)>>)),
      Block(Var(97, <<Nmb(1)>>) \o Assign(97, <<Nmb(0)>>)),
      Block(Var(97, <<Nmb(1)>>) \o Block(Var(98, <<Id(97)>>))),
      Block(Var(97, <<Nmb(1)>>) \o Var(98, <<Nmb(0)>>)) \o PrintOf(<<Nmb(1)>>),
      <<K("TOKEN_IF")>> \o Paren(<<K("TOKEN_FALSE")>>) \o PrintOf(<<Nmb(1)>>)
          \o <<K("TOKEN_ELSE")>> \o PrintOf(<<Nmb(0)>>),
      <<K("TOKEN_IF")>> \o Paren(<<K("TOKEN_TRUE")>>) \o Block(Var(97, <<Nmb(1)>>)),
      Var(97, <<K("TOKEN_TRUE")>>) \o <<K("TOKEN_WHILE")>> \o Paren(<<Id(97)>>)
          \o Assign(97, <<K("TOKEN_FALSE")>>),
      <<K("TOKEN_FOR")>> \o <<K("TOKEN_LEFT_PAREN")>> \o Var(98, <<Nmb(0)>>)
          \o <<K("TOKEN_FALSE"), Semi>>
          \o <<Id(98), K("TOKEN_EQUAL"), Nmb(1)>>
          \o <<K("TOKEN_RIGHT_PAREN")>> \o PrintOf(<<Nmb(1)>>) }

\* Statements with a compile error.
BadStatements ==
    { <<K("TOKEN_PRINT"), Semi>>,
      <<Nmb(1)>>,
      <<K("TOKEN_VAR"), Semi>>,
      Bin(<<Nmb(1)>>, "TOKEN_PLUS", <<Nmb(0)>>) \o <<K("TOKEN_EQUAL"), Nmb(1), Semi>>,
      PrintOf(Bin(<<K("TOKEN_NIL")>>, "TOKEN_OR", <<Nmb(1)>>)),
      Block(Var(97, <<Id(97)>>)),
      Block(Var(97, <<Nmb(1)>>) \o Var(97, <<Nmb(0)>>)),
      <<K("TOKEN_LEFT_BRACE")>> \o Var(97, <<Nmb(1)>>),
      <<ErrorToken("Unexpected character.", 1)>> \o PrintOf(<<Nmb(1)>>),
      PrintOf(<<Lit(<<98>>)>>) \o <<K("TOKEN_PRINT"), Semi>> \o Var(98, <<Lit(<<97>>)>>),
      <<K("TOKEN_VAR"), Nmb(1), Semi>> \o PrintOf(<<Lit(<<99>>)>>) \o <<K("TOKEN_PRINT"), Semi>> }

Sources == {stmts \o <<K("TOKEN_EOF")>> : stmts \in Statements \cup BadStatements}

\* Compiled without the test of compile's result: the chunk is run.
Compiled_ignoring_errors(P) ==
    LET n == new_closure(closures, P.objects, 1) IN
    /\ Len(P.strs) <= MaxStrings
    /\ Len(closures) < MaxClosures
    /\ strs' = P.strs
    /\ strings' = P.strings
    /\ chunk' = P.chunk
    /\ UNCHANGED scanner
    /\ closures' = n.closures
    /\ objects' = n.objects
    /\ freed' = freed
    /\ stack' = [stack EXCEPT ![stack_top] = OBJ_VAL("closure", n.id)]
    /\ stack_top' = stack_top + 1
    /\ frames' = Append(frames, [closure |-> n.id, ip |-> 0, slots |-> stack_top])
    /\ phase' = "run"
    /\ result' = "NONE"

\* interpret once compile has returned, P being the parser at its end: a
\* compile error is returned, or the script closure is pushed and called.
Compiled(P) ==
    /\ Len(P.strs) <= MaxStrings
    /\ strs' = P.strs
    /\ strings' = P.strings
    /\ IF P.had_error
       THEN /\ result' = "INTERPRET_COMPILE_ERROR"
            /\ objects' = P.objects
            /\ freed' = freed
            /\ UNCHANGED <<stack, stack_top, frames, closures, chunk, scanner, phase>>
       ELSE LET n == new_closure(closures, P.objects, 1) IN
            /\ Len(closures) < MaxClosures
            /\ chunk' = P.chunk
            /\ UNCHANGED scanner
            /\ closures' = n.closures
            /\ objects' = n.objects
            /\ freed' = freed
            /\ stack' = [stack EXCEPT ![stack_top] = OBJ_VAL("closure", n.id)]
            /\ stack_top' = stack_top + 1
            /\ frames' = Append(frames, [closure |-> n.id, ip |-> 0, slots |-> stack_top])
            /\ phase' = "run"
            /\ result' = "NONE"

\* interpret(source): compile, and on success the script closure is pushed and
\* called; the chunk of the script function is the chunk compile has written.
InterpretSource ==
    /\ phase = "idle"
    /\ stack_top >= 0 /\ stack_top < STACK_SLOTS
    /\ \E tokens \in Sources :
          Compiled(compile(tokens, init_chunk, strs, strings, objects))
    /\ err' = NoError
    /\ out' = <<>>
    /\ UNCHANGED <<open_upvalues, upvals, globals>>

\* instruction = READ_BYTE() is op
Fetch(op) == Running /\ Frame.ip < Len(chunk.code) /\ chunk.code[Frame.ip + 1] = op
\* The byte READ_BYTE() yields for the operand, and the values of the macros.
Operand == chunk.code[Frame.ip + 2]
READ_SHORT == chunk.code[Frame.ip + 2] * 256 + chunk.code[Frame.ip + 3]
READ_CONSTANT == chunk.constants[Operand + 1]
READ_STRING == READ_CONSTANT.v
RunBinary(op) == Explored(op, peek(1), peek(0)) /\ BINARY_OP(op, Frame.ip + 1)

RunConstant == Fetch(OP_CONSTANT) /\ CanPush /\ ExecConstant(READ_CONSTANT, Frame.ip + 2)

\* (bytes[0] << 16) | (bytes[1] << 8) | bytes[2]
ConstantIndex(bytes) == bytes[1] * 65536 + bytes[2] * 256 + bytes[3]
LongOperand == <<chunk.code[Frame.ip + 2], chunk.code[Frame.ip + 3], chunk.code[Frame.ip + 4]>>

RunConstantLong ==
    /\ Fetch(OP_CONSTANT_LONG) /\ CanPush
    /\ ExecConstant(chunk.constants[ConstantIndex(LongOperand) + 1], Frame.ip + 4)

RunNil == Fetch(OP_NIL) /\ CanPush /\ ExecLiteral(NIL_VAL, Frame.ip + 1)

RunTrue == Fetch(OP_TRUE) /\ CanPush /\ ExecLiteral(BOOL_VAL(TRUE), Frame.ip + 1)

RunFalse == Fetch(OP_FALSE) /\ CanPush /\ ExecLiteral(BOOL_VAL(FALSE), Frame.ip + 1)

RunPop == Fetch(OP_POP) /\ ExecPop(Frame.ip + 1)

RunGetLocal == Fetch(OP_GET_LOCAL) /\ CanPush /\ ExecGetLocal(Operand, Frame.ip + 2)

RunSetLocal == Fetch(OP_SET_LOCAL) /\ ExecSetLocal(Operand, Frame.ip + 2)

RunGetGlobal == Fetch(OP_GET_GLOBAL) /\ CanPush /\ ExecGetGlobal(READ_STRING, Frame.ip + 2)

RunDefineGlobal == Fetch(OP_DEFINE_GLOBAL) /\ ExecDefineGlobal(READ_STRING, Frame.ip + 2)

RunSetGlobal == Fetch(OP_SET_GLOBAL) /\ ExecSetGlobal(READ_STRING, Frame.ip + 2)

RunEqual == Fetch(OP_EQUAL) /\ ExecEqual(Frame.ip + 1)

RunGreater == Fetch(OP_GREATER) /\ RunBinary("OP_GREATER")

RunLess == Fetch(OP_LESS) /\ RunBinary("OP_LESS")

RunAdd ==
    /\ Fetch(OP_ADD)
    /\ Explored("OP_ADD", peek(1), peek(0))
    /\ (IS_STRING(peek(0)) /\ IS_STRING(peek(1))) =>
          \/ Len(strs) < MaxStrings
          \/ \E i \in 1..Len(strs) :
                strs[i].chars = strs[peek(1).v].chars \o strs[peek(0).v].chars
    /\ ExecAdd(Frame.ip + 1)

RunSubtract == Fetch(OP_SUBTRACT) /\ RunBinary("OP_SUBTRACT")

RunMultiply == Fetch(OP_MULTIPLY) /\ RunBinary("OP_MULTIPLY")

RunDivide == Fetch(OP_DIVIDE) /\ RunBinary("OP_DIVIDE")

RunNot == Fetch(OP_NOT) /\ ExecNot(Frame.ip + 1)

RunNegate == Fetch(OP_NEGATE) /\ ExecNegate(Frame.ip + 1)

RunPrint == Fetch(OP_PRINT) /\ ExecPrint(Frame.ip + 1)

RunJump == Fetch(OP_JUMP) /\ ExecJump(READ_SHORT, Frame.ip + 3)

RunJumpIfFalse == Fetch(OP_JUMP_IF_FALSE) /\ ExecJumpIfFalse(READ_SHORT, Frame.ip + 3)

RunLoop == Fetch(OP_LOOP) /\ ExecLoop(READ_SHORT, Frame.ip + 3)

RunReturn == Fetch(OP_RETURN) /\ ExecReturn

NextProg ==
    \/ InterpretSource
    \/ RunConstant \/ RunNil \/ RunTrue \/ RunFalse \/ RunPop
    \/ RunGetLocal \/ RunSetLocal
    \/ RunGetGlobal \/ RunDefineGlobal \/ RunSetGlobal
    \/ RunEqual \/ RunGreater \/ RunLess
    \/ RunAdd \/ RunSubtract \/ RunMultiply \/ RunDivide
    \/ RunNot \/ RunNegate \/ RunPrint
    \/ RunJump \/ RunJumpIfFalse \/ RunLoop
    \/ RunReturn

SpecProg == Init /\ [][NextProg]_vars

----------------------------------------------------------------------------
(* SpecExpr: interpret on print statements of one expression: the literals *)
(* under !, and, or, the equality and comparison operators, and chains of  *)
(* two binary operators.                                                   *)

Literals ==
    { <<K("TOKEN_NIL")>>, <<K("TOKEN_FALSE")>>, <<K("TOKEN_TRUE")>>,
      <<Nmb(0)>>, <<Nmb(1)>>, <<Lit(<<>>)>>, <<Lit(<<98>>)>> }
Numbers == { <<Nmb(0)>>, <<Nmb(1)>> }
EqualityOperators == {"TOKEN_EQUAL_EQUAL", "TOKEN_BANG_EQUAL"}
ComparisonOperators ==
    {"TOKEN_GREATER", "TOKEN_GREATER_EQUAL", "TOKEN_LESS", "TOKEN_LESS_EQUAL"}
ChainOperators ==
    {"TOKEN_PLUS", "TOKEN_MINUS", "TOKEN_STAR", "TOKEN_LESS", "TOKEN_EQUAL_EQUAL"}

NotExpressions == {<<K("TOKEN_BANG")>> \o a : a \in Literals}
LogicalExpressions ==
    {Bin(a, op, b) : a \in Literals, op \in {"TOKEN_AND", "TOKEN_OR"},
                     b \in {<<Nmb(1)>>, <<K("TOKEN_NIL")>>}}
EqualityExpressions ==
    {Bin(a, op, b) : a \in Literals, op \in EqualityOperators, b \in Literals}
ComparisonExpressions ==
    {Bin(a, op, b) : a \in Numbers, op \in ComparisonOperators, b \in Numbers}
ChainExpressions ==
    UNION {{Bin(Bin(a, op1, b), op2, c) : a \in Numbers, b \in Numbers, c \in Numbers}
               : op1 \in ChainOperators, op2 \in ChainOperators}

Expressions ==
    {PrintOf(e) \o <<K("TOKEN_EOF")>> :
        e \in NotExpressions \cup LogicalExpressions \cup EqualityExpressions
                  \cup ComparisonExpressions \cup ChainExpressions}

InterpretExpression ==
    /\ phase = "idle"
    /\ stack_top >= 0 /\ stack_top < STACK_SLOTS
    /\ \E tokens \in Expressions :
          Compiled(compile(tokens, init_chunk, strs, strings, objects))
    /\ err' = NoError
    /\ out' = <<>>
    /\ UNCHANGED <<open_upvalues, upvals, globals>>

NextExpr ==
    \/ InterpretExpression
    \/ RunConstant \/ RunNil \/ RunTrue \/ RunFalse \/ RunPop
    \/ RunEqual \/ RunGreater \/ RunLess
    \/ RunAdd \/ RunSubtract \/ RunMultiply
    \/ RunNot \/ RunPrint
    \/ RunJumpIfFalse
    \/ RunReturn

SpecExpr == Init /\ [][NextExpr]_vars

----------------------------------------------------------------------------
(* SpecLoops: interpret on the sources                                      *)
(*     var a; for (init; cond; incr) body print a;                         *)
(* whose clauses read and write the global a.  A loop is the choice of its *)
(* four clauses.                                                           *)

Loops ==
    {l \in [init : {"none", "false", "true"}, cond : {"none", "a", "not a"},
            incr : {"none", "not a", "false"}, body : {"print", "not a", "true"}] :
        l.body = "print" => (l.cond # "none" /\ l.incr = "not a")}

NotA == <<K("TOKEN_BANG"), Id(97)>>

InitClause(l) ==
    CASE l.init = "none" -> <<Semi>>
      [] l.init = "false" -> Assign(97, <<K("TOKEN_FALSE")>>)
      [] l.init = "true" -> Assign(97, <<K("TOKEN_TRUE")>>)

CondClause(l) ==
    CASE l.cond = "none" -> <<Semi>>
      [] l.cond = "a" -> <<Id(97), Semi>>
      [] l.cond = "not a" -> NotA \o <<Semi>>

IncrClause(l) ==
    CASE l.incr = "none" -> <<>>
      [] l.incr = "not a" -> <<Id(97), K("TOKEN_EQUAL")>> \o NotA
      [] l.incr = "false" -> <<Id(97), K("TOKEN_EQUAL"), K("TOKEN_FALSE")>>

BodyClause(l) ==
    CASE l.body = "print" -> PrintOf(<<Id(97)>>)
      [] l.body = "not a" -> Assign(97, NotA)
      [] l.body = "true" -> Assign(97, <<K("TOKEN_TRUE")>>)

LoopSource(l) ==
    <<K("TOKEN_VAR"), Id(97), Semi, K("TOKEN_FOR"), K("TOKEN_LEFT_PAREN")>>
        \o InitClause(l) \o CondClause(l) \o IncrClause(l) \o <<K("TOKEN_RIGHT_PAREN")>>
        \o BodyClause(l) \o PrintOf(<<Id(97)>>) \o <<K("TOKEN_EOF")>>

InterpretLoop ==
    /\ phase = "idle"
    /\ stack_top >= 0 /\ stack_top < STACK_SLOTS
    /\ \E l \in Loops :
          Compiled(compile(LoopSource(l), init_chunk, strs, strings, objects))
    /\ err' = NoError
    /\ out' = <<>>
    /\ UNCHANGED <<open_upvalues, upvals, globals>>

NextLoops ==
    \/ InterpretLoop
    \/ RunNil \/ RunTrue \/ RunFalse \/ RunPop
    \/ RunGetGlobal \/ RunDefineGlobal \/ RunSetGlobal
    \/ RunNot \/ RunPrint
    \/ RunJump \/ RunJumpIfFalse \/ RunLoop
    \/ RunReturn

SpecLoops == Init /\ [][NextLoops]_vars

----------------------------------------------------------------------------
(* SpecOpen: the list vm.open_upvalues under the calls that change it:     *)
(* capture_upvalue(frame->slots + index) of OP_CLOSURE, close_upvalues of  *)
(* OP_CLOSE_UPVALUE and OP_RETURN, and reset_stack of runtime_error, on    *)
(* any slot of the stack and in any order.                                 *)

CaptureUpvalue ==
    /\ Len(upvals) < MaxCaptures
    /\ \E local \in 0..(STACK_SLOTS - 1) :
          LET c == capture_upvalue(upvals, objects, open_upvalues, local) IN
          /\ upvals' = c.upvals
          /\ objects' = c.objects
          /\ freed' = freed
          /\ open_upvalues' = c.open_upvalues
    /\ UNCHANGED <<stack, stack_top, frames, closures, strs, tableVars, chunk, scanner,
                   ctlVars>>

CloseUpvalues ==
    /\ \E last \in 0..(STACK_SLOTS - 1) :
          LET c == close_upvalues(upvals, stack, open_upvalues, last) IN
          /\ upvals' = c.upvals
          /\ open_upvalues' = c.open_upvalues
    /\ UNCHANGED <<stack, stack_top, frames, closures, strs, objects, freed, tableVars, chunk,
                   scanner, ctlVars>>

ResetStack ==
    /\ stack_top' = 0
    /\ frames' = <<>>
    /\ open_upvalues' = 0
    /\ UNCHANGED <<stack, heapVars, tableVars, chunk, scanner, ctlVars>>

NextOpen == CaptureUpvalue \/ CloseUpvalues \/ ResetStack

SpecOpen == Init /\ [][NextOpen]_vars

----------------------------------------------------------------------------
(* SpecShared: one interpret call on a line without constants whose        *)
(* functions are function 2 (no upvalue) and function 4 (one upvalue).     *)
(* The instruction streams are longer than MaxIp (a function that makes    *)
(* two closures over one local takes eleven bytes), so the steps have      *)
(* their own bound on the code; the calls are of closures, without         *)
(* arguments.                                                              *)

Room(n) == Frame.ip + n <= MaxCode

InterpretShared == phase = "idle" /\ closures = <<>> /\ InterpretOf({<<>>})

SharedNil == Running /\ CanPush /\ Room(1) /\ ExecLiteral(NIL_VAL, Frame.ip + 1)

SharedTrue == Running /\ CanPush /\ Room(1) /\ ExecLiteral(BOOL_VAL(TRUE), Frame.ip + 1)

SharedPop == Running /\ Depth >= 1 /\ Uncaptured(1) /\ Room(1) /\ ExecPop(Frame.ip + 1)

SharedSetLocal ==
    /\ Running /\ Room(2)
    /\ \E slot \in 1..(Depth - 1) : ExecSetLocal(slot, Frame.ip + 2)

SharedFunction ==
    /\ Running /\ CanPush /\ Room(2)
    /\ Len(closures) < MaxHeap
    /\ ExecClosure(2, <<>>, Frame.ip + 2)

SharedClosure ==
    /\ Running /\ CanPush /\ Room(4)
    /\ Len(closures) < MaxHeap
    /\ Len(upvals) < MaxShared
    /\ \E pairs \in UpvaluePairs(4) : ExecClosure(4, pairs, Frame.ip + 4)

SharedCall ==
    /\ Running /\ Depth >= 1 /\ Room(2)
    /\ peek(0).t = "closure"
    /\ ExecCall(0, Frame.ip + 2)

SharedGetUpvalue ==
    /\ Running /\ CanPush /\ Room(2)
    /\ \E slot \in 0..(Len(closures[Frame.closure].upvalues) - 1) :
          ExecGetUpvalue(slot, Frame.ip + 2)

SharedSetUpvalue ==
    /\ Running /\ Depth >= 1 /\ Room(2)
    /\ \E slot \in 0..(Len(closures[Frame.closure].upvalues) - 1) :
          ExecSetUpvalue(slot, Frame.ip + 2)

SharedCloseUpvalue == Running /\ Depth >= 1 /\ Room(1) /\ ExecCloseUpvalue(Frame.ip + 1)

SharedReturn ==
    /\ Running /\ Depth >= 1
    /\ frame_count = 1 => Depth = 1
    /\ ExecReturn

NextShared ==
    \/ InterpretShared
    \/ SharedNil \/ SharedTrue \/ SharedPop \/ SharedSetLocal
    \/ SharedFunction \/ SharedClosure \/ SharedCall
    \/ SharedGetUpvalue \/ SharedSetUpvalue \/ SharedCloseUpvalue
    \/ SharedReturn

SpecShared == Init /\ [][NextShared]_vars

----------------------------------------------------------------------------
(* SpecJumps: interpret on sources whose statement makes the compiler call *)
(* emit_jump, write the code to jump over, and call patch_jump, or call    *)
(* emit_loop behind the code to loop over.  A program is the kind of jump, *)
(* the condition of an OP_JUMP_IF_FALSE, and the distance the operand is   *)
(* to hold; the code in between is that many bytes (OP_RETURN, which ends  *)
(* the run where it is reached) and is not run through: the body of a loop *)
(* is a jump over it.                                                      *)

Distances ==
    (0..MaxDistance)
    \cup {UINT8_MAX, UINT8_COUNT, UINT8_COUNT + 1, UINT16_MAX - 1, UINT16_MAX, UINT16_MAX + 1}

\* The operand of OP_LOOP spans the OP_JUMP of the body and the OP_LOOP itself,
\* each with its two operand bytes.
LoopOverhead == Len(<<OP_JUMP, UINT8_MAX, UINT8_MAX, OP_LOOP, UINT8_MAX, UINT8_MAX>>)

JumpPrograms ==
    {prog \in [kind : {"jump", "jump_if_false", "loop"}, cond : {OP_TRUE, OP_FALSE},
               distance : Distances] :
        /\ prog.kind # "jump_if_false" => prog.cond = OP_TRUE
        /\ prog.kind = "loop" => prog.distance >= LoopOverhead}

\* The capacity after write_chunk calls have brought the count to count.
RECURSIVE Grown(_, _)
Grown(capacity, count) ==
    IF capacity < count THEN Grown(GROW_CAPACITY(capacity), count) ELSE capacity

\* n calls of emit_byte(OP_RETURN)
Fill(P, n) ==
    [P EXCEPT !.chunk.code = @ \o [i \in 1..n |-> OP_RETURN],
              !.chunk.lines = @ \o [i \in 1..n |-> P.previous.line],
              !.chunk.capacity = Grown(@, Len(P.chunk.code) + n)]

\* [P, jump_at, count, loop_at, loop_start]: the parser at the end of compile,
\* the offset of the forward jump, chunk.count at its patch_jump, the offset of
\* the OP_LOOP and the loop_start given to emit_loop (-1 without a loop).
Patched(P, jump_at, offset, loop_start) ==
    [P |-> IF loop_start < 0 THEN patch_jump(P, offset)
           ELSE emit_loop(patch_jump(P, offset), loop_start),
     jump_at |-> jump_at, count |-> Len(P.chunk.code),
     loop_at |-> IF loop_start < 0 THEN -1 ELSE Len(P.chunk.code),
     loop_start |-> loop_start]

Jumping(j, jump_at, n, loop_start) == Patched(Fill(j.P, n), jump_at, j.offset, loop_start)

Finished(B, byte) == [B EXCEPT !.P = end_compiler(emit_byte(@, byte))]

JumpCompiled(prog, S, T, O) ==
    LET P == InitParser(<<>>, init_chunk, S, T, O) IN
    IF prog.kind = "jump"
    THEN Finished(Jumping(emit_jump(P, OP_JUMP), 0, prog.distance, -1), OP_NIL)
    ELSE IF prog.kind = "jump_if_false"
    THEN Finished(Jumping(emit_jump(emit_byte(P, prog.cond), OP_JUMP_IF_FALSE), 1,
                       prog.distance, -1), OP_POP)
    ELSE Finished(Jumping(emit_jump(emit_bytes(P, OP_NIL, OP_POP), OP_JUMP), 2,
                       prog.distance - LoopOverhead, 2), OP_NIL)

InterpretJumps ==
    /\ phase = "idle"
    /\ stack_top >= 0 /\ stack_top < STACK_SLOTS
    /\ \E prog \in JumpPrograms : Compiled(JumpCompiled(prog, strs, strings, objects).P)
    /\ err' = NoError
    /\ out' = <<>>
    /\ UNCHANGED <<open_upvalues, upvals, globals>>

NextJumps ==
    \/ InterpretJumps
    \/ RunNil \/ RunTrue \/ RunFalse \/ RunPop
    \/ RunJump \/ RunJumpIfFalse \/ RunLoop
    \/ RunReturn

SpecJumps == Init /\ [][NextJumps]_vars

----------------------------------------------------------------------------
(* SpecConstants: interpret on sources of one expression statement, a      *)
(* literal, compiled when the chunk holds index constants already (the     *)
(* instructions of those earlier constants are left out of the chunk, so   *)
(* that the run starts at the literal); constant i of them is the number   *)
(* i, and the literal is the number index.                                 *)

ConstantIndices ==
    (0..MaxIndex)
    \cup {UINT8_MAX - 1, UINT8_MAX, UINT8_COUNT, UINT8_COUNT + 1,
          UINT16_MAX, UINT16_MAX + 1, UINT16_MAX + 2}

\* index calls of add_constant
Pooled(P, index) == [P EXCEPT !.chunk.constants = [i \in 1..index |-> NUMBER_VAL(i - 1)]]

ConstantCompiled(index, S, T, O) ==
    end_compiler(emit_byte(emit_constant(Pooled(InitParser(<<>>, init_chunk, S, T, O), index),
                                         NUMBER_VAL(index)),
                           OP_POP))

InterpretConstant ==
    /\ phase = "idle"
    /\ stack_top >= 0 /\ stack_top < STACK_SLOTS
    /\ \E index \in ConstantIndices : Compiled(ConstantCompiled(index, strs, strings, objects))
    /\ err' = NoError
    /\ out' = <<>>
    /\ UNCHANGED <<open_upvalues, upvals, globals>>

NextConstants ==
    \/ InterpretConstant
    \/ RunConstant \/ RunConstantLong \/ RunPop
    \/ RunReturn

SpecConstants == Init /\ [][NextConstants]_vars

----------------------------------------------------------------------------
(* SpecLocals: interpret on the sources                                     *)
(*     { outer { inner print a; } print a; }     { outer print a; }        *)
(* where outer and inner are up to MaxDecls declarations, each `var x;` or *)
(* `var x = a;` for x one of a, b.                                         *)

Decls == [name : {97, 98}, init : {"none", "a"}]
DeclLists == UNION {[1..n -> Decls] : n \in 0..MaxDecls}
LocalPrograms ==
    {p \in [outer : DeclLists, nested : BOOLEAN, inner : DeclLists] :
        ~p.nested => p.inner = <<>>}

DeclTokens(d) ==
    IF d.init = "none" THEN <<K("TOKEN_VAR"), Id(d.name), Semi>>
    ELSE Var(d.name, <<Id(97)>>)
RECURSIVE DeclListTokens(_)
DeclListTokens(ds) ==
    IF ds = <<>> THEN <<>> ELSE DeclTokens(Head(ds)) \o DeclListTokens(Tail(ds))
LocalSource(p) ==
    Block(DeclListTokens(p.outer)
          \o (IF p.nested
              THEN Block(DeclListTokens(p.inner) \o PrintOf(<<Id(97)>>))
              ELSE <<>>)
          \o PrintOf(<<Id(97)>>))
    \o <<K("TOKEN_EOF")>>

\* What compile has written to stderr: the first message, and those behind it.
Reports(P) ==
    IF P.errors = <<>> THEN NoError
    ELSE [format |-> P.errors[1].message,
          args |-> [i \in 1..(Len(P.errors) - 1) |-> P.errors[i + 1].message]]

\* What compile has written to stderr first.
Stderr(P) ==
    IF P.errors = <<>> THEN NoError ELSE [format |-> P.errors[1].message, args |-> <<>>]

InterpretLocals ==
    /\ phase = "idle"
    /\ closures = <<>>
    /\ stack_top >= 0 /\ stack_top < STACK_SLOTS
    /\ \E p \in LocalPrograms :
          LET P == compile(LocalSource(p), init_chunk, strs, strings, objects) IN
          /\ Compiled(P)
          /\ err' = Stderr(P)
    /\ out' = <<>>
    /\ UNCHANGED <<open_upvalues, upvals, globals>>

NextLocals ==
    \/ InterpretLocals
    \/ RunNil \/ RunPop
    \/ RunGetLocal \/ RunGetGlobal
    \/ RunPrint
    \/ RunReturn

SpecLocals == Init /\ [][NextLocals]_vars

----------------------------------------------------------------------------
(* SpecAssign: interpret on expression statements `target;` and            *)
(* `target = value;`, behind `var a = 1; var b = 0;` or in a block behind  *)
(* `var a = 1;`.                                                           *)

AssignTargets ==
    { <<Id(97)>>, <<Nmb(1)>>, <<K("TOKEN_NIL")>>,
      Paren(<<Id(97)>>), <<K("TOKEN_MINUS"), Id(97)>>,
      Bin(<<Id(97)>>, "TOKEN_PLUS", <<Id(98)>>),
      Bin(<<Nmb(1)>>, "TOKEN_STAR", <<Nmb(0)>>) }
\* <<>>: the statement has no `= value`
AssignValues == { <<>>, <<Nmb(0)>>, <<Id(99)>>, <<Id(97), K("TOKEN_EQUAL"), Nmb(1)>> }
AssignPrograms == [target : AssignTargets, value : AssignValues, local : BOOLEAN]

AssignStatement(p) ==
    p.target \o (IF p.value = <<>> THEN <<>> ELSE <<K("TOKEN_EQUAL")>> \o p.value) \o <<Semi>>
AssignSource(p) ==
    (IF p.local
     THEN Block(Var(97, <<Nmb(1)>>) \o AssignStatement(p))
     ELSE Var(97, <<Nmb(1)>>) \o Var(98, <<Nmb(0)>>) \o AssignStatement(p))
    \o <<K("TOKEN_EOF")>>

InterpretAssign ==
    /\ phase = "idle"
    /\ closures = <<>>
    /\ stack_top >= 0 /\ stack_top < STACK_SLOTS
    /\ \E p \in AssignPrograms :
          LET P == compile(AssignSource(p), init_chunk, strs, strings, objects) IN
          /\ Compiled(P)
          /\ err' = Stderr(P)
    /\ out' = <<>>
    /\ UNCHANGED <<open_upvalues, upvals, globals>>

NextAssign ==
    \/ InterpretAssign
    \/ RunConstant \/ RunNil \/ RunPop
    \/ RunGetLocal \/ RunSetLocal
    \/ RunGetGlobal \/ RunDefineGlobal \/ RunSetGlobal
    \/ RunAdd \/ RunMultiply \/ RunNegate
    \/ RunReturn

SpecAssign == Init /\ [][NextAssign]_vars

----------------------------------------------------------------------------
(* SpecFree: the instruction streams of SpecUpvalues, and free_vm once no  *)
(* interpret call is active.  free_vm leaves vm.objects as it is: the       *)
(* pointer dangles.                                                        *)

\* free_object: what it passes to free, in order.
free_object(object) ==
    CASE object[1] = "string" -> <<object>>
      [] object[1] = "function" -> <<<<"chunk", object[2]>>, object>>
      [] object[1] = "native" -> <<object>>
      [] OTHER -> <<>>

\* The while loop of free_objects from the objects O on.
RECURSIVE free_objects(_)
free_objects(O) ==
    IF O = <<>> THEN <<>> ELSE free_object(Head(O)) \o free_objects(Tail(O))

free_table == init_table

FreeVm ==
    /\ phase = "idle"
    /\ globals' = free_table
    /\ strings' = free_table
    /\ freed' = free_objects(objects)
    /\ phase' = "freed"
    /\ UNCHANGED <<stack, stack_top, frames, open_upvalues, upvals, closures, strs, objects,
                   chunk, scanner, result, err, out>>

NextFree ==
    \/ InterpretUpvalues
    \/ OpConstant \/ OpNil \/ OpTrue \/ OpPop
    \/ OpFunction \/ OpClosure \/ OpCall
    \/ OpGetUpvalue \/ OpSetUpvalue \/ OpCloseUpvalue
    \/ OpReturn
    \/ FreeVm

SpecFree == Init /\ [][NextFree]_vars

----------------------------------------------------------------------------
(* SpecSync: interpret on every stream of up to MaxStream tokens out of    *)
(* print, var, `;`, `+`, the number 0 and an error token of the scanner.    *)

StreamTokens ==
    { K("TOKEN_PRINT"), K("TOKEN_VAR"), Semi, K("TOKEN_PLUS"), Nmb(0),
      ErrorToken("Unexpected character.", 1) }
Streams == UNION {[1..n -> StreamTokens] : n \in 0..MaxStream}

InterpretStream ==
    /\ phase = "idle"
    /\ closures = <<>>
    /\ stack_top >= 0 /\ stack_top < STACK_SLOTS
    /\ \E stream \in Streams :
          LET P == compile(stream \o <<K("TOKEN_EOF")>>, init_chunk, strs, strings, objects) IN
          /\ Compiled(P)
          /\ err' = Reports(P)
    /\ out' = <<>>
    /\ UNCHANGED <<open_upvalues, upvals, globals>>

NextSync ==
    \/ InterpretStream
    \/ RunConstant \/ RunAdd \/ RunPop
    \/ RunPrint
    \/ RunReturn

SpecSync == Init /\ [][NextSync]_vars

----------------------------------------------------------------------------
(* SpecTable: table_set and table_delete on vm.globals with interned keys. *)
(* The keys are the strings of KeyNames, which copy_string interns in this  *)
(* order; three of them share the slot of the native name "clock" in a     *)
(* table of capacity 8, and "d" shares that of "read_number".              *)

\* "b", "j", "d", "a", "z"
KeyNames == <<<<98>>, <<106>>, <<100>>, <<97>>, <<122>>>>
TableValues == {NIL_VAL, BOOL_VAL(TRUE)}
TableKeys == (Len(NativeNames) + 1)..Len(strs)

CopyString ==
    /\ phase = "idle"
    /\ Len(strs) < Len(NativeNames) + Len(KeyNames)
    /\ LET c == copy_string(strs, strings, objects, KeyNames[Len(strs) - Len(NativeNames) + 1]) IN
       /\ strs' = c.strs
       /\ strings' = c.strings
       /\ objects' = c.objects
    /\ UNCHANGED <<stack, stack_top, frames, open_upvalues, upvals, closures, freed, globals,
                   chunk, scanner, ctlVars>>

ExecTableSet(key, value) ==
    /\ phase = "idle"
    /\ globals' = table_set(strs, globals, key, value).table
    /\ UNCHANGED <<stack, stack_top, frames, open_upvalues, heapVars, strings,
                   chunk, scanner, ctlVars>>

TableSet == \E key \in TableKeys, value \in TableValues : ExecTableSet(key, value)

ExecTableDelete(key) ==
    /\ phase = "idle"
    /\ globals' = table_delete(strs, globals, key).table
    /\ UNCHANGED <<stack, stack_top, frames, open_upvalues, heapVars, strings,
                   chunk, scanner, ctlVars>>

TableDelete == \E key \in TableKeys : ExecTableDelete(key)

NextTable == CopyString \/ TableSet \/ TableDelete

SpecTable == Init /\ [][NextTable]_vars

----------------------------------------------------------------------------
(* SpecHalt: interpret on every stream of up to MaxBlock tokens out of     *)
(* `{`, `}`, `;`, print, the number 0 and an error token of the scanner;   *)
(* or, on a VM that has interpreted nothing, a client of the scanner that  *)
(* goes on calling scan_token after it has returned TOKEN_EOF.             *)

BlockTokens ==
    { K("TOKEN_LEFT_BRACE"), K("TOKEN_RIGHT_BRACE"), Semi, K("TOKEN_PRINT"), Nmb(0),
      ErrorToken("Unexpected character.", 1) }
BlockStreams == UNION {[1..n -> BlockTokens] : n \in 0..MaxBlock}

InterpretBlocks ==
    /\ phase = "idle"
    /\ closures = <<>>
    /\ scanner = NoScanner
    /\ stack_top >= 0 /\ stack_top < STACK_SLOTS
    /\ \E stream \in BlockStreams :
          LET P == compile(stream \o <<K("TOKEN_EOF")>>, init_chunk, strs, strings, objects) IN
          /\ Compiled(P)
          /\ err' = Reports(P)
    /\ out' = <<>>
    /\ UNCHANGED <<open_upvalues, upvals, globals>>

ScanSource == phase = "idle" /\ result = "NONE" /\ InitScanner

\* The tokens of type TOKEN_EOF that scan_token has returned.
Ends == {i \in 1..Len(scanner.tokens) : scanner.tokens[i].type = "TOKEN_EOF"}

ScanAgain ==
    /\ scanner # NoScanner
    /\ Ends # {}
    /\ Cardinality(Ends) <= MaxRescans
    /\ scanner' = Recorded(ScanTokenOf(scanner))
    /\ UNCHANGED <<stack, stack_top, frames, open_upvalues, heapVars, tableVars, chunk, ctlVars>>

NextHalt ==
    \/ InterpretBlocks
    \/ RunConstant \/ RunPop \/ RunPrint
    \/ RunReturn
    \/ ScanSource \/ ScanToken \/ ScanAgain

SpecHalt == Init /\ [][NextHalt]_vars

----------------------------------------------------------------------------
(* Claims.                                                                 *)

\* The keys of vm.strings.
Interned == {strings.entries[i].key : i \in 1..strings.capacity} \ {0}
\* Every string Value the program holds: on the stack, in a global, in the
\* constant pool.
StringValues ==
    {v \in {stack[i] : i \in 0..(stack_top - 1)}
           \cup {globals.entries[i].value : i \in 1..globals.capacity}
           \cup {chunk.constants[i] : i \in 1..Len(chunk.constants)} : IS_STRING(v)}
\* Position of an object in the vm.objects list (1 is the newest), 0 when absent.
ObjectIndex(object) ==
    IF \E i \in 1..Len(objects) : objects[i] = object
    THEN CHOOSE i \in 1..Len(objects) : objects[i] = object
    ELSE 0

\* C1: after any sequence of copy_string calls and string concatenations,
\* vm.strings holds at most one ObjString per character content, every
\* ObjString is a key of vm.strings, and two string Values with equal content
\* reference the same ObjString, so values_equal on them is true.
C1_InternedOnce ==
    /\ \A i, j \in Interned : strs[i].chars = strs[j].chars => i = j
    /\ Interned = 1..Len(strs)
    /\ \A a, b \in StringValues :
          strs[a.v].chars = strs[b.v].chars => (a.v = b.v /\ values_equal(a, b))

\* C1 witness: the second line's OP_ADD has produced "ab", whose ObjString the
\* first line's OP_ADD had interned (it is older than the second script closure).
C1_ConcatFoundInterned ==
    /\ phase = "run" /\ Len(closures) = 2 /\ stack_top = 2
    /\ IS_STRING(stack[1]) /\ strs[stack[1].v].chars = <<97, 98>>
    /\ ObjectIndex(<<"string", stack[1].v>>) > ObjectIndex(<<"closure", 2>>)

\* The upvalue that slot names in the closure of the current frame.
\* C2: whenever interpret has returned INTERPRET_OK, the value stack is empty
\* (vm.stack_top == vm.stack) and frame_count is 0: the program compiled from
\* the source, run to its final OP_RETURN, has net stack effect zero.
C2_OkLeavesStackEmpty ==
    result = "INTERPRET_OK" => (stack_top = 0 /\ frame_count = 0)

FrameUpvalue(slot) == closures[Frame.closure].upvalues[slot + 1]
IsClosed(U, u) == U[u].location = Closed

\* C3: an upvalue that closes takes the value its stack slot holds at that
\* moment; once closed it stays closed, its value changes only by an
\* OP_SET_UPVALUE through a closure that holds it (to the value on top of the
\* stack), and OP_GET_UPVALUE through it pushes that value, whatever the stack
\* slot it came from holds by then.
C3_ClosedUpvalueKeepsValue ==
    [][\A u \in 1..Len(upvals) :
          /\ (~IsClosed(upvals, u) /\ IsClosed(upvals', u))
                => upvals'[u].closed = stack[upvals[u].location]
          /\ IsClosed(upvals, u) =>
                /\ IsClosed(upvals', u)
                /\ upvals'[u].closed # upvals[u].closed =>
                      /\ Running /\ Depth >= 1
                      /\ \E slot \in 0..(Len(closures[Frame.closure].upvalues) - 1) :
                            FrameUpvalue(slot) = u /\ ExecSetUpvalue(slot, Frame.ip + 2)
                      /\ upvals'[u].closed = peek(0)
                /\ Running =>
                      \A slot \in 0..(Len(closures[Frame.closure].upvalues) - 1) :
                         (CanPush /\ FrameUpvalue(slot) = u
                            /\ ExecGetUpvalue(slot, Frame.ip + 2))
                           => stack'[stack_top] = upvals[u].closed]_vars

\* C3 witness: a closure called after its captured local (a number) was closed
\* has set the upvalue to nil, discarded the operand, pushed true into the
\* slot the local had, and OP_GET_UPVALUE has pushed nil.
C3_SetThenGetClosed ==
    /\ phase = "run" /\ frame_count = 2 /\ Frame.ip = 7 /\ stack_top = 4
    /\ Len(closures[Frame.closure].upvalues) = 1
    /\ IsClosed(upvals, FrameUpvalue(0))
    /\ upvals[FrameUpvalue(0)].closed = NIL_VAL
    /\ stack[2] = BOOL_VAL(TRUE)
    /\ stack[3] = NIL_VAL

\* The compilation of each source by a VM as init_vm leaves it.
Compilations ==
    [tokens \in Sources |->
        compile(tokens, init_chunk, InitVm.strs, InitVm.strings, InitVm.objects)]

\* end_scope has emitted one OP_POP per local of the scope, nothing else, and
\* has left local_count as it was at begin_scope.
PopsLocals(code, scope) ==
    /\ scope.return.local_count = scope.begin.local_count
    /\ scope.return.count - scope.call.count
           = scope.call.local_count - scope.begin.local_count
    /\ \A i \in (scope.call.count + 1)..scope.return.count : code[i] = OP_POP

\* Where the code of the scope begins and where it ends, the frame holds the
\* locals declared before the scope above its slot 0, and nothing else.
DepthRestored(scope) ==
    Frame.ip \in {scope.begin.count, scope.return.count}
        => stack_top - Frame.slots - 1 = scope.begin.local_count

\* C4: for every scope compiled between begin_scope and end_scope (a block, the
\* scope of a for statement), end_scope emits exactly one OP_POP per local
\* declared in the scope and restores local_count to its value at begin_scope,
\* and at run time the stack depth on leaving the scope is the depth on
\* entering it.
C4_ScopesBalance ==
    \A tokens \in Sources :
        \A i \in 1..Len(Compilations[tokens].scopes) :
            /\ PopsLocals(Compilations[tokens].chunk.code, Compilations[tokens].scopes[i])
            /\ (Running /\ chunk.code = Compilations[tokens].chunk.code)
                  => DepthRestored(Compilations[tokens].scopes[i])

\* C4 witness: the run has left a block that declared two locals; their values
\* are still in the two slots above the stack top.
C4_LeftBlockOfTwoLocals ==
    /\ Running
    /\ \E tokens \in Sources :
        /\ chunk.code = Compilations[tokens].chunk.code
        /\ \E i \in 1..Len(Compilations[tokens].scopes) :
            LET scope == Compilations[tokens].scopes[i] IN
            /\ scope.call.local_count - scope.begin.local_count = 2
            /\ scope.return.count - scope.call.count = 2
            /\ Frame.ip = scope.return.count
            /\ stack_top = Frame.slots + 1
            /\ IS_NUMBER(stack[stack_top]) /\ IS_NUMBER(stack[stack_top + 1])

\* The step starts the run of the chunk of a compilation without errors.
RunsCompiled(P) ==
    ~P.had_error /\ phase' = "run" /\ chunk' = P.chunk /\ strs' = P.strs

\* C5: if compile reports an error for a source, interpret returns
\* INTERPRET_COMPILE_ERROR without executing an instruction of it: the value
\* stack, the call frames and the globals are as before the call and there is
\* no output; run() starts on the chunk of an error-free compilation only.
C5_CompileErrorLeavesVm ==
    [][phase = "idle" =>
          \/ /\ result' = "INTERPRET_COMPILE_ERROR"
             /\ phase' = "idle"
             /\ stack' = stack /\ stack_top' = stack_top
             /\ frames' = frames
             /\ globals' = globals
             /\ out' = <<>>
          \/ \E tokens \in Sources :
                RunsCompiled(compile(tokens, init_chunk, strs, strings, objects))]_vars

\* C5 witness: a line with a compile error was interpreted after a line that
\* had run (its closure is still in the stack's memory), and compile had
\* interned a string before the error.
C5_ErrorAfterRun ==
    /\ result = "INTERPRET_COMPILE_ERROR"
    /\ phase = "idle"
    /\ Len(closures) = 1
    /\ stack[0] = OBJ_VAL("closure", 1)
    /\ Len(strs) > Len(InitVm.strs)
    /\ out = <<>>

IsError(format, args) ==
    /\ result = "INTERPRET_RUNTIME_ERROR"
    /\ err.format = format
    /\ err.args = args
IsError_(format, args) ==
    /\ result' = "INTERPRET_RUNTIME_ERROR"
    /\ err'.format = format
    /\ err'.args = args

\* C6: a runtime error ends the interpret call at once with
\* INTERPRET_RUNTIME_ERROR, an empty value stack and no call frames, and
\* interpret returns INTERPRET_RUNTIME_ERROR only after a runtime error.
C6_RuntimeErrorResets ==
    /\ (err.format # "") <=> (result = "INTERPRET_RUNTIME_ERROR")
    /\ err.format # "" => (phase = "idle" /\ stack_top = 0 /\ frame_count = 0)

\* C6 witness: a call at FRAMES_MAX frames has failed (values and frames were
\* on the stacks) and the stacks are empty.
C6_ErrorInNestedCall ==
    /\ IsError("Stack overflow.", <<>>)
    /\ stack_top = 0 /\ frame_count = 0

\* The call steps of a closure: OP_CALL with arg_count on the closure callee.
CallOf(arg_count, callee) ==
    /\ Depth >= arg_count + 1
    /\ peek(arg_count) = OBJ_VAL("closure", callee)
    /\ ExecCall(arg_count, Frame.ip + 2)
Arity(callee) == Functions[closures[callee].function].arity

\* C7: OP_CALL on a closure with arg_count different from the arity pushes no
\* frame and reports "Expected N arguments, but got M."; with arg_count equal
\* to the arity and fewer than FRAMES_MAX frames it pushes one frame with
\* slots = stack_top - arg_count - 1 (the callee's slot) and ip at offset 0;
\* and no step pushes a frame otherwise.
C7_CallChecksArity ==
    [][Running =>
        /\ \A arg_count \in 0..MaxArgs, callee \in 1..Len(closures) :
              CallOf(arg_count, callee) =>
                 /\ arg_count # Arity(callee) =>
                       /\ frames' = <<>>
                       /\ IsError_("Expected %d arguments, but got %d.",
                                   <<Arity(callee), arg_count>>)
                 /\ (arg_count = Arity(callee) /\ frame_count < FRAMES_MAX) =>
                       /\ frames' = Append([frames EXCEPT ![Len(frames)].ip = Frame.ip + 2],
                                           [closure |-> callee, ip |-> 0,
                                            slots |-> stack_top - arg_count - 1])
                       /\ UNCHANGED <<stack, stack_top, result, err>>
        /\ Len(frames') > Len(frames) =>
              LET pushed == frames'[Len(frames')] IN
              /\ Len(frames') = Len(frames) + 1
              /\ pushed.ip = 0
              /\ stack[pushed.slots] = OBJ_VAL("closure", pushed.closure)
              /\ pushed.slots = stack_top - Arity(pushed.closure) - 1]_vars

\* C7 witness: a function of one parameter was called without arguments.
C7_ArityMismatchReported ==
    /\ IsError("Expected %d arguments, but got %d.", <<1, 0>>)
    /\ frame_count = 0

\* C8: frame_count stays within 0..FRAMES_MAX, and OP_CALL on a closure at
\* FRAMES_MAX frames (with matching arity) reports "Stack overflow." and pushes
\* no frame.
C8_FramesBounded ==
    /\ [](frame_count >= 0 /\ frame_count <= FRAMES_MAX)
    /\ [][(Running /\ frame_count = FRAMES_MAX) =>
            \A arg_count \in 0..MaxArgs, callee \in 1..Len(closures) :
               (CallOf(arg_count, callee) /\ arg_count = Arity(callee)) =>
                  (frames' = <<>> /\ IsError_("Stack overflow.", <<>>))]_vars

\* C8 witness: a call was attempted at FRAMES_MAX frames.
C8_StackOverflowReported ==
    /\ IsError("Stack overflow.", <<>>)
    /\ \E i \in 1..(STACK_SLOTS - 1) : stack[i].t = "closure"

\* The result of a binary instruction on the numbers a and b.
Expected(op, a, b) ==
    CASE op = "OP_GREATER" -> BOOL_VAL(a > b)
      [] op = "OP_LESS" -> BOOL_VAL(a < b)
      [] op = "OP_SUBTRACT" -> NUMBER_VAL(a - b)
      [] op = "OP_MULTIPLY" -> NUMBER_VAL(a * b)
      [] op = "OP_DIVIDE" -> NUMBER_VAL(CHOOSE q \in -MaxNum..MaxNum : q * b = a)
\* The step replaces the two operands by value and raises nothing.
BinaryResult(value) ==
    /\ stack_top' = stack_top - 1
    /\ stack'[stack_top - 2] = value
    /\ frames' = [frames EXCEPT ![Len(frames)].ip = Frame.ip + 1]
    /\ UNCHANGED <<result, err, phase>>

\* C9: OP_ADD concatenates two strings, adds two numbers and otherwise reports
\* "Operands must be two numbers or two strings."; OP_SUBTRACT, OP_MULTIPLY,
\* OP_DIVIDE, OP_GREATER and OP_LESS report "Operands must be numbers." unless
\* both operands are numbers; OP_NEGATE reports "Operand must be a number."
\* unless its operand is a number; a binary instruction that succeeds leaves
\* one value in place of its two operands.
C9_OperandTypes ==
    [][(Running /\ Depth >= 1) =>
        /\ (Depth >= 2 /\ ExecAdd(Frame.ip + 1)) =>
              IF IS_STRING(peek(0)) /\ IS_STRING(peek(1))
              THEN /\ IS_STRING(stack'[stack_top - 2])
                   /\ strs'[stack'[stack_top - 2].v].chars
                        = strs[peek(1).v].chars \o strs[peek(0).v].chars
                   /\ BinaryResult(stack'[stack_top - 2])
              ELSE IF IS_NUMBER(peek(0)) /\ IS_NUMBER(peek(1))
              THEN BinaryResult(NUMBER_VAL(peek(1).v + peek(0).v))
              ELSE IsError_("Operands must be two numbers or two strings.", <<>>)
        /\ \A op \in {"OP_SUBTRACT", "OP_MULTIPLY", "OP_DIVIDE", "OP_GREATER", "OP_LESS"} :
              (Depth >= 2 /\ Explored(op, peek(1), peek(0)) /\ BINARY_OP(op, Frame.ip + 1)) =>
                 IF IS_NUMBER(peek(0)) /\ IS_NUMBER(peek(1))
                 THEN BinaryResult(Expected(op, peek(1).v, peek(0).v))
                 ELSE IsError_("Operands must be numbers.", <<>>)
        /\ ExecNegate(Frame.ip + 1) =>
              IF IS_NUMBER(peek(0))
              THEN /\ stack'[stack_top - 1] = NUMBER_VAL(0 - peek(0).v)
                   /\ UNCHANGED <<stack_top, result, err>>
              ELSE IsError_("Operand must be a number.", <<>>)]_vars

\* C9 witness: OP_ADD on a string and a number has failed.
C9_MixedAddReported ==
    /\ IsError("Operands must be two numbers or two strings.", <<>>)
    /\ IS_STRING(stack[1]) /\ IS_NUMBER(stack[2])

\* C10: OP_GET_GLOBAL and OP_SET_GLOBAL on a name that vm.globals does not hold
\* report "Undefined variable 'NAME'."; after the failed OP_SET_GLOBAL the name
\* is still undefined, and every other global has the value it had.
C10_UndefinedGlobal ==
    [][Running =>
        \A i \in StringConstants :
           LET name == chunk.constants[i].v IN
           ~table_get(strs, globals, name).found =>
              /\ (CanPush /\ ExecGetGlobal(name, Frame.ip + 2)) =>
                    /\ IsError_("Undefined variable '%s'.", <<strs[name].chars>>)
                    /\ UNCHANGED globals
              /\ (Depth >= 1 /\ ExecSetGlobal(name, Frame.ip + 2)) =>
                    /\ IsError_("Undefined variable '%s'.", <<strs[name].chars>>)
                    /\ ~table_get(strs, globals', name).found
                    /\ \A other \in 1..Len(strs) :
                          table_get(strs, globals', other) = table_get(strs, globals, other)]_vars

\* C10 witness: an assignment to the undefined b has failed (its entry is a
\* tombstone) while a is defined.
C10_FailedAssignment ==
    /\ IsError("Undefined variable '%s'.", <<<<98>>>>)
    /\ \E i \in 1..globals.capacity : globals.entries[i] = Tombstone
    /\ \E a \in 1..Len(strs) : strs[a].chars = <<97>> /\ table_get(strs, globals, a).found

\* nil and the boolean false, and no other value.
Falsy(value) == value = NIL_VAL \/ value = BOOL_VAL(FALSE)

\* C11: is_falsey(v) is true exactly when v is nil or the boolean false (the
\* number 0 and the empty string are truthy); OP_JUMP_IF_FALSE takes its jump
\* exactly for those values and leaves the tested value on the stack, and
\* OP_NOT replaces its operand by true exactly for those values.
C11_Truthiness ==
    [][/\ (Running /\ stack_top > 0) => (is_falsey(peek(0)) <=> Falsy(peek(0)))
       /\ Fetch(OP_JUMP_IF_FALSE) =>
            /\ stack' = stack
            /\ stack_top' = stack_top
            /\ frames'[Len(frames)].ip
                  = Frame.ip + 3 + (IF Falsy(peek(0)) THEN READ_SHORT ELSE 0)
       /\ Fetch(OP_NOT) =>
            /\ stack_top' = stack_top
            /\ stack'[stack_top - 1] = BOOL_VAL(Falsy(peek(0)))
            /\ \A i \in 0..(stack_top - 2) : stack'[i] = stack[i]]_vars

\* C11 witness: OP_JUMP_IF_FALSE has tested the empty string and has not
\* jumped: the run is at the OP_POP behind it, the string still on the stack.
C11_EmptyStringFallsThrough ==
    /\ Running
    /\ Frame.ip >= 3
    /\ chunk.code[Frame.ip - 2] = OP_JUMP_IF_FALSE
    /\ chunk.code[Frame.ip + 1] = OP_POP
    /\ IS_STRING(peek(0))
    /\ strs[peek(0).v].chars = <<>>

\* A value as a program can tell it from others: a string by its characters.
Described(S, value) ==
    [t |-> value.t,
     v |-> IF IS_STRING(value) THEN 0 ELSE value.v,
     chars |-> IF IS_STRING(value) THEN S[value.v].chars ELSE <<>>]

\* The value a literal of the source denotes.
LiteralValue(lit) ==
    CASE lit[1].type = "TOKEN_NIL" -> Described(strs, NIL_VAL)
      [] lit[1].type = "TOKEN_FALSE" -> Described(strs, BOOL_VAL(FALSE))
      [] lit[1].type = "TOKEN_TRUE" -> Described(strs, BOOL_VAL(TRUE))
      [] lit[1].type = "TOKEN_NUMBER" -> Described(strs, NUMBER_VAL(lit[1].lexeme[1] - 48))
      [] lit[1].type = "TOKEN_STRING" ->
            [t |-> "string", v |-> 0,
             chars |-> SubSeq(lit[1].lexeme, 2, Len(lit[1].lexeme) - 1)]

\* The compilation of each expression statement by a VM as init_vm leaves it.
ExprCompilations ==
    [tokens \in Expressions |->
        compile(tokens, init_chunk, InitVm.strs, InitVm.strings, InitVm.objects)]

\* The chunk of the VM is the compilation of `print e;`.
Holds(e) ==
    LET P == ExprCompilations[PrintOf(e) \o <<K("TOKEN_EOF")>>] IN
    /\ ~P.had_error
    /\ chunk.code = P.chunk.code
    /\ Len(chunk.constants) = Len(P.chunk.constants)
    /\ \A i \in 1..Len(chunk.constants) :
          Described(strs, chunk.constants[i]) = Described(P.strs, P.chunk.constants[i])

\* run() has returned from the chunk of `print e;`: without error, having
\* printed value.
Yields(e, value) ==
    (phase = "idle" /\ result # "INTERPRET_COMPILE_ERROR" /\ Holds(e)) =>
        /\ result = "INTERPRET_OK"
        /\ Len(out) = 1
        /\ Described(strs, out[1]) = Described(strs, value)

\* C12: for every pair of values a and b, `a != b` evaluates to the negation
\* of what `a == b` evaluates to; for every pair of numbers, `a <= b` evaluates
\* to the negation of `a > b`, and `a >= b` to the negation of `a < b`.
C12_NegatedOperators ==
    /\ \A a \in Literals, b \in Literals :
        /\ Yields(Bin(a, "TOKEN_EQUAL_EQUAL", b), BOOL_VAL(LiteralValue(a) = LiteralValue(b)))
        /\ Yields(Bin(a, "TOKEN_BANG_EQUAL", b), BOOL_VAL(~(LiteralValue(a) = LiteralValue(b))))
    /\ \A a \in Numbers, b \in Numbers :
        /\ Yields(Bin(a, "TOKEN_GREATER", b), BOOL_VAL(LiteralValue(a).v > LiteralValue(b).v))
        /\ Yields(Bin(a, "TOKEN_LESS_EQUAL", b), BOOL_VAL(~(LiteralValue(a).v > LiteralValue(b).v)))
        /\ Yields(Bin(a, "TOKEN_LESS", b), BOOL_VAL(LiteralValue(a).v < LiteralValue(b).v))
        /\ Yields(Bin(a, "TOKEN_GREATER_EQUAL", b), BOOL_VAL(~(LiteralValue(a).v < LiteralValue(b).v)))

\* C12 witness: `print "b" != "b";` has printed false and `interpret` has
\* returned.
C12_EqualStringsNotUnequal ==
    /\ phase = "idle"
    /\ result = "INTERPRET_OK"
    /\ Holds(Bin(<<Lit(<<98>>)>>, "TOKEN_BANG_EQUAL", <<Lit(<<98>>)>>))
    /\ out = <<BOOL_VAL(FALSE)>>

\* The bytes the calls were to store, and the line passed with each of them.
RECURSIVE BytesOf(_)
BytesOf(calls) ==
    IF calls = <<>> THEN <<>>
    ELSE BytesOf(SubSeq(calls, 1, Len(calls) - 1)) \o calls[Len(calls)].bytes
RECURSIVE LinesOf(_)
LinesOf(calls) ==
    IF calls = <<>> THEN <<>>
    ELSE LinesOf(SubSeq(calls, 1, Len(calls) - 1))
             \o [i \in 1..Len(calls[Len(calls)].bytes) |-> calls[Len(calls)].line]

\* C13: chunk.code and chunk.lines have equal length at all times: after any
\* sequence of write_chunk and write_constant calls, also across the growth of
\* the capacity, both hold exactly count entries, lines[i] is the line passed
\* with the byte stored at code[i], and entries written earlier are unchanged.
C13_CodeAndLines ==
    /\ Len(chunk.code) = Len(chunk.lines)
    /\ Len(chunk.code) <= chunk.capacity
    /\ chunk.code = BytesOf(chunk.calls)
    /\ chunk.lines = LinesOf(chunk.calls)

\* C13 witness: the capacity has grown a second time, within a write_constant
\* call whose first byte filled the old arrays.
C13_GrownWithinWriteConstant ==
    /\ chunk.capacity = 16
    /\ Len(chunk.code) = 9
    /\ chunk.code[8] = OP_CONSTANT
    /\ chunk.lines[1] = 1 /\ chunk.lines[8] = 2 /\ chunk.lines[9] = 2

\* An error was reported before log[j] and synchronize has not run since.
Panicking(log, j) ==
    \E i \in 1..(j - 1) :
        /\ log[i] = "reported"
        /\ \A k \in (i + 1)..(j - 1) : log[k] # "synchronize"

\* C14: the parser reports at most one error between two synchronisation
\* points: once an error has set panic_mode, every later error_at call is
\* silent until synchronize clears panic_mode, and the next error after that is
\* reported again; every reported error sets had_error, and compile goes on to
\* the end of the source.  (Of every source interpret may be called with.)
C14_OneErrorPerSynchronisation ==
    \A tokens \in (IF phase = "idle" THEN Sources ELSE {}) :
        LET P == compile(tokens, init_chunk, strs, strings, objects) IN
        /\ \A j \in 1..Len(P.log) :
              /\ P.log[j] = "silent" => Panicking(P.log, j)
              /\ P.log[j] = "reported" => ~Panicking(P.log, j)
        /\ Len(P.errors) = Cardinality({j \in 1..Len(P.log) : P.log[j] = "reported"})
        /\ P.had_error <=> P.errors # <<>>
        /\ P.pos = Len(P.tokens)

\* C14 witness: interpret has returned from a source with four errors: the
\* first was reported, the second silent, and after synchronize (and a
\* statement that interned "c") the third was reported, the fourth silent.
C14_SecondErrorSurfaced ==
    /\ result = "INTERPRET_COMPILE_ERROR"
    /\ \E i \in 1..Len(strs) : strs[i].chars = <<99>>
    /\ \E tokens \in Sources :
          /\ Compilations[tokens].log
                = <<"reported", "silent", "synchronize", "reported", "silent", "synchronize">>
          /\ \E i \in 1..Len(Compilations[tokens].strs) :
                Compilations[tokens].strs[i].chars = <<99>>

\* The cursor of the scanner is at the two slashes of a line comment.
AtComment(sc) == CharAt(sc, sc.current) = 47 /\ CharAt(sc, sc.current + 1) = 47

\* The newlines of the source from the cursor on, as offsets.
NewlinesAhead(sc) == {i \in sc.current..(Len(sc.source) - 1) : CharAt(sc, i) = 10}

\* The scanner behind the comment at its cursor: behind the newline that ends
\* the comment, one line further, or at the end of a source that ends in the
\* comment.
BehindComment(sc) ==
    IF NewlinesAhead(sc) = {}
    THEN [sc EXCEPT !.current = Len(sc.source)]
    ELSE [sc EXCEPT !.line = @ + 1,
                    !.current = 1 + CHOOSE i \in NewlinesAhead(sc) :
                                       \A j \in NewlinesAhead(sc) : i <= j]

\* C15: scan_token skips whitespace and line comments before it classifies the
\* next lexeme: called with the cursor at a // comment, it consumes the comment
\* up to and including the newline that ends it (the line advances by one) and
\* returns the token of the first lexeme behind it (or TOKEN_EOF), never a
\* TOKEN_ERROR for the comment or its newline.
C15_CommentsSkipped ==
    [][(scanner # NoScanner /\ AtComment(scanner) /\ scanner' # scanner) =>
          /\ scanner'.tokens[Len(scanner'.tokens)] = ScanTokenOf(BehindComment(scanner)).token
          /\ scanner'.line >= BehindComment(scanner).line
          /\ scanner'.current > BehindComment(scanner).current
                \/ scanner'.tokens[Len(scanner'.tokens)].type = "TOKEN_EOF"]_vars

\* run() has returned from the chunk of `print e;`: without error, having
\* printed the value of the literal lit.
YieldsLiteral(e, lit) ==
    (phase = "idle" /\ result # "INTERPRET_COMPILE_ERROR" /\ Holds(e)) =>
        /\ result = "INTERPRET_OK"
        /\ Len(out) = 1
        /\ Described(strs, out[1]) = LiteralValue(lit)

\* run() is at the OP_PRINT of `print e;` with the value of e, and nothing
\* else, above the frame's slot 0.
OneValue(e) == (Holds(e) /\ Fetch(OP_PRINT)) => Depth = 1

RightOperands == {<<Nmb(1)>>, <<K("TOKEN_NIL")>>}
\* The literals nil and false.
FalsyLiteral(lit) == lit[1].type \in {"TOKEN_NIL", "TOKEN_FALSE"}

\* C16: `or` is an infix operator of precedence OR: `a or b` compiles without
\* error and evaluates to the value of a when a is truthy, and to the value of
\* b otherwise, leaving exactly one value on the stack.
C16_OrShortCircuits ==
    \A a \in Literals, b \in RightOperands :
        /\ ~ExprCompilations[PrintOf(Bin(a, "TOKEN_OR", b)) \o <<K("TOKEN_EOF")>>].had_error
        /\ YieldsLiteral(Bin(a, "TOKEN_OR", b), IF FalsyLiteral(a) THEN b ELSE a)
        /\ OneValue(Bin(a, "TOKEN_OR", b))

\* The offsets of the instructions of the right operand of `print a and b;`
\* in its code: behind the operand bytes of the first OP_JUMP_IF_FALSE and
\* before the OP_PRINT.
RightOperandCode(code) ==
    LET jumps == {i \in 1..Len(code) : code[i] = OP_JUMP_IF_FALSE} IN
    IF jumps = {} THEN 0..(Len(code) - 3)
    ELSE ((CHOOSE i \in jumps : \A j \in jumps : i <= j) + 2)..(Len(code) - 3)

\* C17: `a and b` evaluates to the value of a when a is falsy, without running
\* an instruction of b, and to the value of b otherwise, with exactly one
\* value on the stack on both paths.
C17_AndShortCircuits ==
    \A a \in Literals, b \in RightOperands :
        /\ YieldsLiteral(Bin(a, "TOKEN_AND", b), IF FalsyLiteral(a) THEN a ELSE b)
        /\ OneValue(Bin(a, "TOKEN_AND", b))
        /\ (Running /\ Holds(Bin(a, "TOKEN_AND", b)) /\ FalsyLiteral(a))
              => Frame.ip \notin RightOperandCode(chunk.code)

\* C17 witness: `print false and 1;` is at its OP_PRINT, having jumped over
\* the code of the right operand: false is the one value on the stack.
C17_JumpedOverRightOperand ==
    /\ Holds(Bin(<<K("TOKEN_FALSE")>>, "TOKEN_AND", <<Nmb(1)>>))
    /\ Fetch(OP_PRINT)
    /\ Depth = 1
    /\ peek(0) = BOOL_VAL(FALSE)

\* What the language has a binary operator compute: a value, or a type error.
TypeError == [t |-> "error", v |-> 0]
Computed(op, x, y) ==
    IF x = TypeError \/ y = TypeError THEN TypeError
    ELSE IF op = "TOKEN_EQUAL_EQUAL" THEN BOOL_VAL(x = y)
    ELSE IF x.t # "number" \/ y.t # "number" THEN TypeError
    ELSE CASE op = "TOKEN_PLUS" -> NUMBER_VAL(x.v + y.v)
           [] op = "TOKEN_MINUS" -> NUMBER_VAL(x.v - y.v)
           [] op = "TOKEN_STAR" -> NUMBER_VAL(x.v * y.v)
           [] op = "TOKEN_LESS" -> BOOL_VAL(x.v < y.v)

\* How tightly the operators of the chains bind.
Binding(op) ==
    CASE op = "TOKEN_EQUAL_EQUAL" -> 1
      [] op = "TOKEN_LESS" -> 2
      [] op \in {"TOKEN_PLUS", "TOKEN_MINUS"} -> 3
      [] op = "TOKEN_STAR" -> 4

NumberOf(lit) == NUMBER_VAL(lit[1].lexeme[1] - 48)

\* a op1 b op2 c: op2 takes b first if it binds tighter than op1; otherwise
\* the chain goes left to right.
Grouped(a, op1, b, op2, c) ==
    IF Binding(op2) > Binding(op1)
    THEN Computed(op1, NumberOf(a), Computed(op2, NumberOf(b), NumberOf(c)))
    ELSE Computed(op2, Computed(op1, NumberOf(a), NumberOf(b)), NumberOf(c))

\* run() has returned from the chunk of `print e;`: having printed value, or
\* with a runtime error where the language has a type error.
Evaluates(e, value) ==
    (phase = "idle" /\ result # "INTERPRET_COMPILE_ERROR" /\ Holds(e)) =>
        IF value = TypeError
        THEN result = "INTERPRET_RUNTIME_ERROR" /\ out = <<>>
        ELSE result = "INTERPRET_OK" /\ out = <<value>>

\* C18: the parser emits operands and operators in an order that respects
\* precedence and left associativity: in `a op1 b op2 c` an operator of higher
\* precedence binds tighter (1 - 1 * 0 is 1), and operators of equal
\* precedence are evaluated left to right (1 - 1 - 1 is -1).
C18_PrecedenceAndAssociativity ==
    (phase = "idle" /\ result \in {"INTERPRET_OK", "INTERPRET_RUNTIME_ERROR"}) =>
        \A op1 \in ChainOperators, op2 \in ChainOperators :
            \A a \in Numbers, b \in Numbers, c \in Numbers :
                /\ ~ExprCompilations[PrintOf(Bin(Bin(a, op1, b), op2, c))
                                         \o <<K("TOKEN_EOF")>>].had_error
                /\ Evaluates(Bin(Bin(a, op1, b), op2, c), Grouped(a, op1, b, op2, c))

\* C18 witness: `print 1 - 1 - 1;` has printed -1.
C18_SubtractedLeftToRight ==
    /\ phase = "idle"
    /\ result = "INTERPRET_OK"
    /\ Holds(Bin(Bin(<<Nmb(1)>>, "TOKEN_MINUS", <<Nmb(1)>>), "TOKEN_MINUS", <<Nmb(1)>>))
    /\ out = <<NUMBER_VAL(-1)>>

\* What the language has `var a; for (init; cond; incr) body print a;` do: the
\* value of a after init, whether cond holds for a value of a, and a after
\* body and after incr.
AfterInit(l) ==
    CASE l.init = "none" -> NIL_VAL
      [] l.init = "false" -> BOOL_VAL(FALSE)
      [] l.init = "true" -> BOOL_VAL(TRUE)
CondHolds(l, a) ==
    CASE l.cond = "none" -> TRUE
      [] l.cond = "a" -> ~Falsy(a)
      [] l.cond = "not a" -> Falsy(a)
AfterBody(l, a) ==
    CASE l.body = "print" -> a
      [] l.body = "not a" -> BOOL_VAL(Falsy(a))
      [] l.body = "true" -> BOOL_VAL(TRUE)
AfterIncr(l, a) ==
    CASE l.incr = "none" -> a
      [] l.incr = "not a" -> BOOL_VAL(Falsy(a))
      [] l.incr = "false" -> BOOL_VAL(FALSE)

\* The iterations from a on: cond first, then body, then incr, until cond is
\* falsy: [ends, printed], printed being the output with the final print a.  A
\* loop over the three values of a that has not ended after Fuel iterations
\* never ends.
Fuel == 4
RECURSIVE Iterations(_, _, _, _)
Iterations(l, a, printed, n) ==
    IF ~CondHolds(l, a) THEN [ends |-> TRUE, printed |-> Append(printed, a)]
    ELSE IF n = 0 THEN [ends |-> FALSE, printed |-> printed]
    ELSE Iterations(l, AfterIncr(l, AfterBody(l, a)),
                    IF l.body = "print" THEN Append(printed, a) ELSE printed, n - 1)

\* The compilation of each loop by a VM as init_vm leaves it.
LoopCompilations ==
    [l \in Loops |->
        compile(LoopSource(l), init_chunk, InitVm.strs, InitVm.strings, InitVm.objects)]

\* The chunk of the VM is the one of the compilation P.
HoldsChunk(P) ==
    /\ ~P.had_error
    /\ chunk.code = P.chunk.code
    /\ Len(chunk.constants) = Len(P.chunk.constants)
    /\ \A i \in 1..Len(chunk.constants) :
          Described(strs, chunk.constants[i]) = Described(P.strs, P.chunk.constants[i])

\* C19: the code of `for (init; cond; incr) body` runs init once, and in every
\* iteration evaluates cond first, runs body only if cond was truthy, runs
\* incr after body and before the next evaluation of cond, and leaves the loop,
\* popping the value of cond, the first time cond is falsy; without cond the
\* loop is never left.
C19_ForLoop ==
    \A l \in Loops :
        /\ ~LoopCompilations[l].had_error
        /\ (phase = "idle" /\ result # "INTERPRET_COMPILE_ERROR"
                /\ HoldsChunk(LoopCompilations[l])) =>
              /\ Iterations(l, AfterInit(l), <<>>, Fuel).ends
              /\ result = "INTERPRET_OK"
              /\ out = Iterations(l, AfterInit(l), <<>>, Fuel).printed
        /\ (Running /\ HoldsChunk(LoopCompilations[l])) =>
              /\ Fetch(OP_RETURN) => Depth = 0
              /\ \A i \in 1..Len(out) :
                    /\ i <= Len(Iterations(l, AfterInit(l), <<>>, Fuel).printed)
                    /\ out[i] = Iterations(l, AfterInit(l), <<>>, Fuel).printed[i]

\* C19 witness: `var a; for (; !a; a = !a) print a; print a;` has run: one
\* iteration has printed nil, and the print behind the loop true.
C19_OneIteration ==
    /\ phase = "idle"
    /\ result = "INTERPRET_OK"
    /\ HoldsChunk(LoopCompilations[[init |-> "none", cond |-> "not a",
                                    incr |-> "not a", body |-> "print"]])
    /\ out = <<NIL_VAL, BOOL_VAL(TRUE)>>


C21_OpenListSorted ==
    LET L == OpenList(upvals, open_upvalues) IN
    /\ \A i \in 1..Len(L) : upvals[L[i]].location # Closed
    /\ \A i \in 1..(Len(L) - 1) : upvals[L[i]].location > upvals[L[i + 1]].location

\* C21 witness: slots 3 and 1 were captured, then slot 2, whose upvalue was
\* linked in between the other two.
C21_CapturedBetween ==
    /\ Len(upvals) = 3
    /\ OpenList(upvals, open_upvalues) = <<1, 3, 2>>
    /\ upvals[1].location = 3 /\ upvals[3].location = 2 /\ upvals[2].location = 1

\* The upvalues that closures hold: <<closure, index>> pairs.
Held == {h \in (1..Len(closures)) \X (1..MaxShared) : h[2] <= Len(closures[h[1]].upvalues)}
UpvalueOf(h) == closures[h[1]].upvalues[h[2]]
OnOpenList(u) == \E i \in 1..Len(OpenList(upvals, open_upvalues)) :
                    OpenList(upvals, open_upvalues)[i] = u

\* C22: OP_CLOSURE capturing a local whose slot has an upvalue on the open list
\* gives the closure that upvalue and creates none, so no two upvalues held
\* by closures are open on the same slot; a value written through a closure
\* (OP_SET_UPVALUE) is what every closure holding the upvalue reads, open or
\* closed; a value written to the local (OP_SET_LOCAL) is what every closure
\* holding the slot's open upvalue reads; and OP_GET_UPVALUE pushes that value.
C22_OneUpvaluePerLocal ==
    /\ [](\A g \in Held, h \in Held :
             (/\ upvals[UpvalueOf(g)].location # Closed
              /\ upvals[UpvalueOf(g)].location = upvals[UpvalueOf(h)].location)
                => UpvalueOf(g) = UpvalueOf(h))
    /\ [][Running =>
            /\ \A pairs \in UpvaluePairs(4) :
                  (CanPush /\ pairs[1].is_local = 1 /\ ExecClosure(4, pairs, Frame.ip + 4)) =>
                     LET on == {u \in 1..Len(upvals) :
                                   /\ OnOpenList(u)
                                   /\ upvals[u].location = Frame.slots + pairs[1].index}
                         got == closures'[Len(closures')].upvalues[1]
                     IN  IF on # {}
                         THEN got \in on /\ Len(upvals') = Len(upvals)
                         ELSE got = Len(upvals) + 1 /\ Len(upvals') = Len(upvals) + 1
            /\ \A slot \in 0..(Len(closures[Frame.closure].upvalues) - 1) :
                  /\ (Depth >= 1 /\ ExecSetUpvalue(slot, Frame.ip + 2)) =>
                        \A h \in Held :
                           UpvalueOf(h) = FrameUpvalue(slot) =>
                              Deref(upvals', stack', UpvalueOf(h)) = peek(0)
                  /\ (CanPush /\ ExecGetUpvalue(slot, Frame.ip + 2)) =>
                        stack'[stack_top] = Deref(upvals, stack, FrameUpvalue(slot))
            /\ \A slot \in 1..(Depth - 1) :
                  ExecSetLocal(slot, Frame.ip + 2) =>
                     \A h \in Held :
                        upvals[UpvalueOf(h)].location = Frame.slots + slot =>
                           Deref(upvals', stack', UpvalueOf(h)) = peek(0)]_vars

\* C22 witness: function 2 has made closures 3 and 4 over its local in slot 2
\* and returned closure 4, which closed the one upvalue they hold; the script
\* has called closure 4, and it has pushed nil and set the closed upvalue.
C22_SharedAfterClose ==
    /\ phase = "run"
    /\ frames = <<[closure |-> 1, ip |-> 6, slots |-> 0],
                  [closure |-> 4, ip |-> 3, slots |-> 1]>>
    /\ closures[3].upvalues = <<1>> /\ closures[4].upvalues = <<1>>
    /\ Len(upvals) = 1
    /\ upvals[1].location = Closed /\ upvals[1].closed = NIL_VAL
    /\ stack_top = 3 /\ stack[2] = NIL_VAL

\* C23: OP_CALL on a native pushes no frame and leaves the frame's ip behind
\* the operand; the value that replaces the callee and its arg_count
\* arguments is one the host function returns for arg_count and the
\* arguments at stack_top - arg_count, the stack below the callee is
\* untouched, and stack_top has gone down by arg_count.
C23_NativeCall ==
    [][\A arg_count \in 0..MaxArgs :
          (/\ Running /\ Depth >= arg_count + 1
           /\ peek(arg_count).t = "native"
           /\ ExecCall(arg_count, Frame.ip + 2)) =>
             /\ frames' = [frames EXCEPT ![frame_count].ip = Frame.ip + 2]
             /\ stack_top' = stack_top - arg_count
             /\ stack'[stack_top' - 1] \in
                   NativeResults(peek(arg_count).v, arg_count, stack_top - arg_count)
             /\ \A i \in 0..(stack_top' - 2) : stack'[i] = stack[i]
             /\ phase' = "run"]_vars

\* C23 witness: the script has called read_number with the string "clock" as
\* its argument, and the number read, 1, stands where the native stood; the
\* argument is still in the slot above.
C23_ReadNumberReturned ==
    /\ phase = "run"
    /\ frames = <<[closure |-> Frame.closure, ip |-> 6, slots |-> 0]>>
    /\ stack_top = 2
    /\ stack[1] = NUMBER_VAL(1)
    /\ IS_STRING(stack[2]) /\ strs[stack[2].v].chars = NativeNames[1]

\* The compilation of each jump program by a VM as init_vm leaves it.
JumpCompilations ==
    [prog \in JumpPrograms |-> JumpCompiled(prog, InitVm.strs, InitVm.strings, InitVm.objects)]
\* The run is at offset at of the chunk of compilation B and takes a step.
StepsAt(B, at) == Running /\ chunk = B.P.chunk /\ Frame.ip = at /\ frames' # frames

\* C24: the OP_JUMP or OP_JUMP_IF_FALSE that emit_jump wrote and patch_jump
\* patched sets ip, when it jumps, to what chunk.count was at the call of
\* patch_jump (an OP_JUMP_IF_FALSE on a truthy value goes on behind its
\* operand); the OP_LOOP that emit_loop(loop_start) wrote sets ip to
\* loop_start; a distance up to 65535 compiles without an error, and a
\* distance above 65535 is a compile error, whose chunk is never run.
C24_JumpOperands ==
    /\ [][\A prog \in JumpPrograms :
            LET B == JumpCompilations[prog] IN
            /\ StepsAt(B, B.jump_at) =>
                  frames'[frame_count].ip =
                     IF prog.kind = "jump_if_false" /\ ~is_falsey(peek(0))
                     THEN B.jump_at + 3 ELSE B.count
            /\ StepsAt(B, B.loop_at) => frames'[frame_count].ip = B.loop_start]_vars
    /\ [](\A prog \in JumpPrograms :
            LET B == JumpCompilations[prog] IN
            /\ phase = "idle" =>
                  /\ B.P.had_error <=> prog.distance > UINT16_MAX
                  /\ B.P.had_error =>
                        B.P.errors[1].message =
                           IF prog.kind = "loop" THEN "Loop body too large."
                           ELSE "Too much code to jump over."
            /\ (Running /\ chunk = B.P.chunk) => prog.distance <= UINT16_MAX)

\* C24 witness: the OP_JUMP at offset 0 with the operand 0xFF 0xFF has jumped
\* over 65535 bytes to offset 65538, which holds the OP_NIL written behind
\* patch_jump.
C24_JumpedOver65535 ==
    /\ phase = "run" /\ frame_count = 1
    /\ Frame.ip = UINT16_MAX + 3
    /\ Len(chunk.code) = UINT16_MAX + 5
    /\ chunk.code[1] = OP_JUMP /\ chunk.code[2] = UINT8_MAX /\ chunk.code[3] = UINT8_MAX
    /\ chunk.code[Frame.ip + 1] = OP_NIL

\* The compilation of each constant program by a VM as init_vm leaves it.
ConstantCompilations ==
    [index \in ConstantIndices |->
        ConstantCompiled(index, InitVm.strs, InitVm.strings, InitVm.objects)]
\* The indices whose three bytes are checked without a pool of that size.
LongIndices == {UINT8_COUNT, UINT16_MAX + 1, 2 * 65536 + 3 * 256 + 4,
                UINT8_COUNT * 65536 - 1}
BigEndian(bytes, index) ==
    /\ Len(bytes) = 3
    /\ \A i \in 1..3 : bytes[i] \in 0..UINT8_MAX
    /\ bytes[1] = index \div 65536
    /\ bytes[2] = (index \div 256) % 256
    /\ bytes[3] = index % 256

\* C25: emit_constant on a chunk of index constants appends the value at the
\* zero-based index index and writes OP_CONSTANT and the index as one byte
\* when index <= 255, OP_CONSTANT_LONG and the index as three big-endian
\* bytes otherwise; the instruction, run, pushes the value and goes on behind
\* its operand; and the three bytes write_constant writes for an index up to
\* 2^24 - 1 are big-endian and decode, as OP_CONSTANT_LONG decodes them, to
\* the index.
C25_ConstantRoundTrip ==
    /\ [](phase = "idle" =>
            /\ \A index \in ConstantIndices :
                  LET c == ConstantCompilations[index].chunk IN
                  /\ Len(c.constants) = index + 1
                  /\ c.constants[index + 1] = NUMBER_VAL(index)
                  /\ IF index <= 255
                     THEN SubSeq(c.code, 1, 2) = <<OP_CONSTANT, index>>
                     ELSE /\ c.code[1] = OP_CONSTANT_LONG
                          /\ BigEndian(SubSeq(c.code, 2, 4), index)
                  /\ c.code[IF index <= 255 THEN 3 ELSE 5] = OP_POP
            /\ \A index \in LongIndices :
                  /\ IndexBytes(index)[1] = OP_CONSTANT_LONG
                  /\ BigEndian(SubSeq(IndexBytes(index), 2, 4), index)
                  /\ ConstantIndex(SubSeq(IndexBytes(index), 2, 4)) = index)
    /\ [][\A index \in ConstantIndices :
            (/\ Running /\ chunk = ConstantCompilations[index].chunk
             /\ Frame.ip = 0 /\ frames' # frames) =>
               /\ stack_top' = stack_top + 1
               /\ stack'[stack_top] = NUMBER_VAL(index)
               /\ frames'[frame_count].ip = IF index <= 255 THEN 2 ELSE 4]_vars

\* C25 witness: OP_CONSTANT_LONG 0 1 0, the first long instruction, has pushed
\* constant 256 of the pool.
C25_PushedConstant256 ==
    /\ phase = "run" /\ frame_count = 1 /\ Frame.ip = 4
    /\ SubSeq(chunk.code, 1, 4) = <<OP_CONSTANT_LONG, 0, 1, 0>>
    /\ stack_top = 2
    /\ stack[1] = NUMBER_VAL(UINT8_COUNT)

\* The compilation of each program of SpecLocals by a VM as init_vm leaves it.
LocalCompilations ==
    [p \in LocalPrograms |->
        compile(LocalSource(p), init_chunk, InitVm.strs, InitVm.strings, InitVm.objects)]
\* The messages compile has reported that are message, in order.
Reported(P, message) == SelectSeq(P.errors, LAMBDA e : e.message = message)
\* Declaration i of the block ds has the name of an earlier one of the block.
Redeclares(ds, i) == \E j \in 1..(i - 1) : ds[j].name = ds[i].name
\* The bytes of the declarations ds: OP_NIL, or the two bytes of reading a.
RECURSIVE CodeSize(_)
CodeSize(ds) ==
    IF ds = <<>> THEN 0
    ELSE (IF Head(ds).init = "none" THEN 1 ELSE 2) + CodeSize(Tail(ds))
\* `print a;` compiled where the declarations ds are in scope: the slot of the
\* last declaration of a, or a global.
ReadsInnermost(code, at, ds) ==
    LET with == {i \in 1..Len(ds) : ds[i].name = 97} IN
    /\ code[at + 1] = IF with = {} THEN OP_GET_GLOBAL ELSE OP_GET_LOCAL
    /\ with # {} => code[at + 2] = (CHOOSE i \in with : \A j \in with : j <= i) - 1
    /\ code[at + 3] = OP_PRINT

\* C26: compile reports "Already a variable with this name in this scope."
\* once for each declaration whose name an earlier declaration of the same
\* block has, and for no other - not for one whose name a declaration of the
\* enclosing block has; and `print a;` reads the slot of the innermost
\* declaration of a in scope, in the inner block and behind it.
C26_RedeclarationAndShadowing ==
    phase = "idle" =>
       \A p \in LocalPrograms :
          LET P == LocalCompilations[p]
              at == CodeSize(p.outer) + CodeSize(p.inner)
          IN  /\ Len(Reported(P, "Already a variable with this name in this scope."))
                    = Cardinality({i \in 1..Len(p.outer) : Redeclares(p.outer, i)})
                      + Cardinality({i \in 1..Len(p.inner) : Redeclares(p.inner, i)})
              /\ IF p.nested
                 THEN /\ ReadsInnermost(P.chunk.code, at, p.outer \o p.inner)
                      /\ ReadsInnermost(P.chunk.code, at + 3 + Len(p.inner), p.outer)
                 ELSE ReadsInnermost(P.chunk.code, at, p.outer)

\* C26 witness: { var a; { var a; print a; } print a; } is running; the read
\* of the inner block, OP_GET_LOCAL 1, has been executed.
C26_ShadowedRead ==
    /\ phase = "run"
    /\ chunk.code = <<OP_NIL, OP_NIL, OP_GET_LOCAL, 1, OP_PRINT, OP_POP,
                      OP_GET_LOCAL, 0, OP_PRINT, OP_POP, OP_RETURN>>
    /\ Frame.ip = 4

\* The locals that are declared and not yet initialized at the event e.
Uninitialized(e) == {i \in 1..Len(e.depths) : e.depths[i] = -1}
\* Event j of the history H lies between an add_local and the mark_initialized
\* after it: an add_local precedes it with only resolve_local calls between.
InInitializer(H, j) ==
    /\ H[j].op = "resolve_local"
    /\ \E k \in 1..(j - 1) :
          /\ H[k].op = "add_local"
          /\ \A m \in (k + 1)..j : H[m].op = "resolve_local"
\* The history of the locals of the compilation P keeps to the depth == -1
\* window.
DepthWindow(P) ==
    LET H == P.history IN
    \A j \in 1..Len(H) :
       LET e == H[j] IN
       \* every local not in the window is initialized, of a scope that is open
       /\ \A i \in (1..Len(e.depths)) \ Uninitialized(e) :
             0 < e.depths[i] /\ e.depths[i] <= e.scope_depth
       \* the window opens at the declaration, for the declared local alone
       /\ e.op = "add_local" =>
             /\ Uninitialized(e) = {e.local + 1}
             /\ e.local + 1 = Len(e.depths)
             /\ \E k \in (j + 1)..Len(H) :
                   /\ H[k].op = "mark_initialized"
                   /\ H[k].local = e.local
                   /\ \A m \in (j + 1)..(k - 1) : H[m].op = "resolve_local"
       \* it is open while the initializer is compiled
       /\ e.op = "resolve_local" =>
             Uninitialized(e) = IF InInitializer(H, j) THEN {Len(e.depths)} ELSE {}
       \* and closed at every other time
       /\ e.op \notin {"add_local", "resolve_local"} => Uninitialized(e) = {}
       \* a name resolved to the local in the window is the error, to no other none
       /\ e.op = "resolve_local" =>
             IF e.local + 1 \in Uninitialized(e)
             THEN /\ P.had_error
                  /\ Len(e.calls) = 1
                  /\ e.calls = <<"reported">> =>
                        /\ Len(e.errors) = 1
                        /\ e.errors[1].message
                              = "Can't read local variable in its own initializer."
             ELSE e.calls = <<>>

\* C27: in every compilation of SpecLocals and of the sources of SpecProg, a
\* local has depth -1 from add_local until the mark_initialized that follows
\* the initializer, and then only; resolve_local passes "Can't read local
\* variable in its own initializer." to error when the name it resolves is
\* that local's (error_at prints it unless the parser is in panic mode), and
\* nothing else; all other locals have 0 < depth <= scope_depth. In the
\* programs of SpecLocals the initializer has emitted code inside the window.
C27_DepthWindow ==
    phase = "idle" =>
       /\ \A p \in LocalPrograms : DepthWindow(LocalCompilations[p])
       /\ \A tokens \in Sources : DepthWindow(Compilations[tokens])
       /\ \A p \in LocalPrograms :
             LET H == LocalCompilations[p].history IN
             \A j \in 1..Len(H), k \in 1..Len(H) :
                (j < k /\ H[j].op = "add_local" /\ H[k].op = "mark_initialized"
                   /\ H[k].local = H[j].local /\ H[k].scope_depth = H[j].scope_depth)
                => H[k].count > H[j].count

\* C27 witness: compile has reported the read of a local in its own
\* initializer, and interpret has returned the compile error.
C27_OwnInitializerRejected ==
    /\ phase = "idle"
    /\ result = "INTERPRET_COMPILE_ERROR"
    /\ err.format = "Can't read local variable in its own initializer."

\* The compilation of each program of SpecAssign by a VM as init_vm leaves it.
AssignCompilations ==
    [p \in AssignPrograms |->
        compile(AssignSource(p), init_chunk, InitVm.strs, InitVm.strings, InitVm.objects)]

\* The code behind the statement of p: end_scope's OP_POP of the local a, and
\* emit_return.
Epilogue(p) == IF p.local THEN <<OP_POP, OP_RETURN>> ELSE <<OP_RETURN>>

\* C28: the statement `target = value;` is the error "Invalid assignment
\* target." whenever target is not an identifier alone - a literal, a grouping,
\* a negation, a binary expression -, and it is an assignment without error,
\* ending in OP_SET_LOCAL or OP_SET_GLOBAL and OP_POP, when target is the
\* identifier a; interpret then returns INTERPRET_COMPILE_ERROR with that
\* message first on stderr, or runs the chunk.
C28_InvalidAssignmentTarget ==
    /\ phase = "idle" =>
          \A p \in AssignPrograms :
             LET P == AssignCompilations[p] IN
             p.value # <<>> =>
                IF p.target = <<Id(97)>>
                THEN /\ ~P.had_error
                     /\ SubSeq(P.chunk.code, Len(P.chunk.code) - Len(Epilogue(p)) - 2,
                               Len(P.chunk.code))
                           = <<IF p.local THEN OP_SET_LOCAL ELSE OP_SET_GLOBAL,
                               P.chunk.code[Len(P.chunk.code) - Len(Epilogue(p)) - 1],
                               OP_POP>> \o Epilogue(p)
                ELSE /\ P.had_error
                     /\ P.errors[1].message = "Invalid assignment target."
    /\ result = "INTERPRET_COMPILE_ERROR" => err.format = "Invalid assignment target."

\* C29: the chunk of every compilation without error ends with OP_NIL,
\* OP_RETURN, and when run() is at an OP_RETURN the value it will pop lies above
\* slot 0 of the frame, where the callee is.
C29_NilReturnEpilogue ==
    /\ phase = "idle" =>
          \A tokens \in Sources :
             LET code == Compilations[tokens].chunk.code IN
             ~Compilations[tokens].had_error =>
                /\ Len(code) >= 2
                /\ code[Len(code) - 1] = OP_NIL
                /\ code[Len(code)] = OP_RETURN
    /\ Fetch(OP_RETURN) => stack_top - 1 > Frame.slots

\* C30: the compiler keeps slot 0 for the function: in the programs of
\* SpecAssign with a local, add_local gives a the index 1, the frame-relative
\* index at which the value of its initializer is pushed behind the callee;
\* and when run() is at an OP_GET_LOCAL or OP_SET_LOCAL, the slot the operand
\* names is that of a: above slot 0, below stack_top, and not the callee.
C30_SlotZeroReserved ==
    /\ phase = "idle" =>
          \A p \in AssignPrograms :
             LET H == AssignCompilations[p].history IN
             \A j \in 1..Len(H) : H[j].op = "add_local" => H[j].local = 1
    /\ (Fetch(OP_GET_LOCAL) \/ Fetch(OP_SET_LOCAL)) =>
          /\ Operand = 1
          /\ Frame.slots + Operand < stack_top
          /\ stack[Frame.slots + Operand] # OBJ_VAL("closure", Frame.closure)

\* The compilation of each stream of SpecSync by a VM as init_vm leaves it.
StreamCompilations ==
    [stream \in Streams |->
        compile(stream \o <<K("TOKEN_EOF")>>, init_chunk,
                InitVm.strs, InitVm.strings, InitVm.objects)]
\* The tokens at which synchronize returns.
Statementstarts ==
    {"TOKEN_CLASS", "TOKEN_FUN", "TOKEN_VAR", "TOKEN_FOR", "TOKEN_IF", "TOKEN_WHILE",
     "TOKEN_PRINT", "TOKEN_RETURN", "TOKEN_EOF"}
\* With token k of tokens current, and the parser at token from with previous
\* before it: parser.previous, the last token before k that is no error token.
PreviousAt(tokens, from, previous, k) ==
    LET before == {i \in from..(k - 1) : tokens[i].type # "TOKEN_ERROR"} IN
    IF before = {} THEN previous
    ELSE tokens[CHOOSE i \in before : \A j \in before : j <= i]
\* Token k is where synchronize is to stop.
SyncPoint(tokens, from, previous, k) ==
    /\ tokens[k].type # "TOKEN_ERROR"
    /\ \/ PreviousAt(tokens, from, previous, k).type = "TOKEN_SEMICOLON"
       \/ tokens[k].type \in Statementstarts
\* The call e of synchronize on tokens has stopped at the first such token.
StopsAtFirst(tokens, e) ==
    LET from == e.from.pos
        to == e.to.pos
    IN  /\ from <= to /\ to <= Len(tokens)
        /\ e.to.current = tokens[to]
        /\ e.to.previous = PreviousAt(tokens, from, e.from.previous, to)
        /\ SyncPoint(tokens, from, e.from.previous, to)
        /\ \A k \in from..(to - 1) : ~SyncPoint(tokens, from, e.from.previous, k)
        \* nothing is emitted; only the error tokens skipped are reported, the
        \* first of them, which sets panic_mode again
        /\ e.count[1] = e.count[2]
        /\ LET scanned == {k \in (from + 1)..to : tokens[k].type = "TOKEN_ERROR"} IN
           /\ e.to.panic_mode <=> scanned # {}
           /\ Len(e.errors) = IF scanned = {} THEN 0 ELSE 1

\* C31: every call of synchronize in the compilation of a stream of SpecSync
\* returns - after at most as many advance calls as tokens are left - at the
\* first token from the current one on where parser.previous is `;` or the
\* token is one of class, fun, var, for, if, while, print, return, EOF; it has
\* set panic_mode to false, and panic_mode is true at the return only when
\* advance has reported an error token on the way.
C31_SynchronizeStops ==
    phase = "idle" =>
       \A stream \in Streams :
          LET P == StreamCompilations[stream] IN
          \A i \in 1..Len(P.skips) :
             StopsAtFirst(stream \o <<K("TOKEN_EOF")>>, P.skips[i])

\* C31 witness: compile has reported "Expect expression." twice: synchronize
\* has cleared panic_mode behind the first statement and stopped before the
\* second.
C31_ReportedAgain ==
    /\ phase = "idle"
    /\ result = "INTERPRET_COMPILE_ERROR"
    /\ err.format = "Expect expression."
    /\ err.args = <<"Expect expression.">>

\* C32: once free_vm has returned, every object linked into vm.objects has
\* been freed exactly once, whatever its kind, and nothing else has been freed.
C32_EveryObjectFreedOnce ==
    phase = "freed" =>
       /\ \A i \in 1..Len(objects) :
             Cardinality({j \in 1..Len(freed) : freed[j] = objects[i]}) = 1
       /\ \A j \in 1..Len(freed) : \E i \in 1..Len(objects) : freed[j] = objects[i]

\* The ObjString objects linked into vm.objects, as the list names them.
LinkedStrings == {i \in 1..Len(objects) : objects[i][1] = "string"}
\* OP_ADD is about to concatenate two strings whose joined content is interned
\* already: the ObjString that table_find_string will find.
FoundInterned ==
    IF Running /\ Depth >= 2 /\ IS_STRING(peek(0)) /\ IS_STRING(peek(1))
    THEN table_find_string(strs, strings, strs[peek(1).v].chars \o strs[peek(0).v].chars,
                           hash_string(strs[peek(1).v].chars \o strs[peek(0).v].chars))
    ELSE 0

\* C33: vm.objects names every allocated ObjString once and no other - no
\* freed one, and no live one is missing -, and an OP_ADD of two strings whose
\* joined content is interned already leaves vm.objects, the ObjString objects
\* and vm.strings as they were and puts the interned string in place of the
\* operands.
C33_DiscardRestoresObjects ==
    /\ [](/\ \A i \in LinkedStrings : objects[i][2] \in 1..Len(strs)
          /\ \A k \in 1..Len(strs) :
                Cardinality({i \in LinkedStrings : objects[i][2] = k}) = 1)
    /\ [][(FoundInterned # 0 /\ ExecAdd(Frame.ip + 1)) =>
             /\ objects' = objects
             /\ strs' = strs
             /\ strings' = strings
             /\ stack_top' = stack_top - 1
             /\ stack'[stack_top' - 1] = OBJ_VAL("string", FoundInterned)
             /\ strs[FoundInterned].chars = strs[peek(1).v].chars \o strs[peek(0).v].chars]_vars

\* C33 witness: the OP_ADD of the second line has joined "a" and "b" and found
\* "ab", interned by the first line; the head of vm.objects is still the
\* closure of the second line, and every object on it is allocated.
C33_DiscardedReserved ==
    /\ phase = "run" /\ Len(closures) = 2 /\ stack_top = 2 /\ Frame.ip = 5
    /\ IS_STRING(stack[1]) /\ strs[stack[1].v].chars = <<97, 98>>
    /\ \A i \in 1..Len(chunk.constants) : chunk.constants[i] # stack[1]
    /\ objects[1] = <<"closure", 2>>
    /\ Cardinality(LinkedStrings) = Len(strs)


----------------------------------------------------------------------------
\* The slot find_entry returns for a key of vm.globals, and the slots its probe
\* loop visits before it.
SlotOf(key) == find_entry(strs, globals.entries, globals.capacity, key)
ProbedBefore(key) ==
    LET home == HashMod(strs[key].hash, globals.capacity) IN
    {(home + d) % globals.capacity :
        d \in 0..(((SlotOf(key) - home) % globals.capacity) - 1)}

\* C34: the hash table is a map under table_set and table_delete on interned
\* keys.  table_set(k, v) returns true exactly when table_get(k) failed before
\* it, table_get(k) yields v after it, table_delete(k) returns true exactly when
\* table_get(k) succeeded before it, table_get(k) fails after it, and neither
\* call (with the tombstone the one leaves and the growth the other makes)
\* changes what table_get yields for any other key.  By induction table_get(k)
\* yields the value of the most recent table_set(k, v) iff no table_delete(k)
\* came after it.
C34_TableIsAMap ==
    /\ [][\A key \in TableKeys : \A value \in TableValues :
            ExecTableSet(key, value) =>
                /\ table_set(strs, globals, key, value).is_new_key
                       = ~table_get(strs, globals, key).found
                /\ table_get(strs, globals', key) = [found |-> TRUE, value |-> value]
                /\ \A other \in TableKeys \ {key} :
                       table_get(strs, globals', other) = table_get(strs, globals, other)]_vars
    /\ [][\A key \in TableKeys :
            ExecTableDelete(key) =>
                /\ table_delete(strs, globals, key).deleted
                       = table_get(strs, globals, key).found
                /\ ~table_get(strs, globals', key).found
                /\ \A other \in TableKeys \ {key} :
                       table_get(strs, globals', other) = table_get(strs, globals, other)]_vars

\* C34 witness: the table has grown, and table_get finds a key whose probe loop
\* passes a tombstone.
C34_FoundPastTombstone ==
    /\ phase = "idle"
    /\ globals.capacity = 16
    /\ \E key \in TableKeys :
          /\ table_get(strs, globals, key).found
          /\ \E i \in ProbedBefore(key) : globals.entries[i + 1] = Tombstone

\* The entries of a table that hold a key, and its tombstones.
LiveEntries(table) == {i \in 1..table.capacity : table.entries[i].key # 0}
TombstoneEntries(table) == {i \in 1..table.capacity : table.entries[i] = Tombstone}
\* The character sequences the probe loops are run on: the names that are or will
\* be interned and "r", which never is.
ProbedNames == {NativeNames[i] : i \in 1..Len(NativeNames)}
                   \cup {KeyNames[i] : i \in 1..Len(KeyNames)} \cup {<<114>>}

\* C35: after any sequence of table_set and table_delete the count of a table is
\* the number of its live entries and tombstones and is at most 0.75 * capacity,
\* a table of capacity > 0 has an empty entry that is no tombstone, and the probe
\* loops of find_entry (for every interned key, in the table or not) and of
\* table_find_string (for every name, interned or not) return.
C35_LoadBounded ==
    phase = "idle" =>
        /\ \A table \in {globals, strings} :
              /\ table.count
                    = Cardinality(LiveEntries(table)) + Cardinality(TombstoneEntries(table))
              /\ table.count * 4 <= table.capacity * 3
              /\ table.capacity > 0 =>
                    \E i \in 1..table.capacity : table.entries[i] = EmptyEntry
              /\ \A key \in 1..Len(strs) :
                    table.capacity > 0 =>
                        find_entry(strs, table.entries, table.capacity, key) # -1
        /\ \A chars \in ProbedNames :
              /\ table_find_string(strs, strings, chars, hash_string(chars)) # -1
              /\ table_find_string(strs, globals, chars, hash_string(chars)) # -1

\* C35 witness: vm.globals is at its maximal load with a tombstone among its
\* entries, and vm.strings has grown.
C35_FullLoad ==
    /\ phase = "idle"
    /\ globals.count * 4 = globals.capacity * 3
    /\ TombstoneEntries(globals) # {}
    /\ Cardinality(LiveEntries(globals)) > Len(NativeNames)
    /\ strings.capacity = 16

----------------------------------------------------------------------------
\* The upvalues the closures of the heap hold.
HeldUpvalues ==
    UNION {{closures[c].upvalues[i] : i \in 1..Len(closures[c].upvalues)} :
               c \in 1..Len(closures)} \ {0}

\* C36: in every state - after a runtime error and in a later interpret call on
\* the same VM as well - every upvalue a closure holds is closed or is on
\* vm.open_upvalues, and no upvalue at all refers to a slot of the value stack
\* while it is absent from that list.
C36_OpenUpvaluesListed ==
    /\ \A u \in HeldUpvalues : IsClosed(upvals, u) \/ OnOpenList(u)
    /\ \A u \in 1..Len(upvals) : IsClosed(upvals, u) \/ OnOpenList(u)

----------------------------------------------------------------------------
\* C37: while a compiled program executes, and when interpret has returned,
\* vm.stack_top points into the array or just past its last slot:
\* vm.stack <= vm.stack_top <= vm.stack + capacity, so that no pop has moved
\* stack_top below the base and no push has written past the last slot.
C37_StackTopInArray == stack_top >= 0 /\ stack_top <= STACK_SLOTS

----------------------------------------------------------------------------
BlockCompilations ==
    [stream \in BlockStreams |->
        compile(stream \o <<K("TOKEN_EOF")>>, init_chunk, InitVm.strs, InitVm.strings,
                InitVm.objects)]
\* The calls of op on the trail of a parser.
Calls(P, op) == {j \in 1..Len(P.trail) : P.trail[j].op = op}

\* C38: compile returns on every stream, with the source scanned to its end;
\* every call of declaration() is made while the current token is not TOKEN_EOF
\* and returns with at least one more token scanned, at the top level, in a
\* block and when synchronize has run, so that there are no more calls of
\* declaration() than tokens; synchronize never moves backwards; and once
\* scan_token has returned TOKEN_EOF every later call returns TOKEN_EOF.
C38_DeclarationConsumes ==
    /\ (phase = "idle" /\ scanner = NoScanner) =>
          \A stream \in BlockStreams :
             LET P == BlockCompilations[stream] IN
             /\ P.current.type = "TOKEN_EOF"
             /\ P.pos = Len(stream) + 1
             /\ \A j \in Calls(P, "declaration") :
                   /\ P.trail[j].from.current # "TOKEN_EOF"
                   /\ P.trail[j].to.pos > P.trail[j].from.pos
             /\ Cardinality(Calls(P, "declaration")) <= Len(stream)
             /\ \A j \in Calls(P, "synchronize") : P.trail[j].to.pos >= P.trail[j].from.pos
    /\ \A i \in Ends : \A j \in i..Len(scanner.tokens) : j \in Ends

\* C38 witness: interpret has returned from a compile in which the first
\* declaration() of a block reported an error and its synchronize returned
\* without scanning a token.
C38_RecoveredInBlock ==
    /\ phase = "idle"
    /\ result = "INTERPRET_COMPILE_ERROR"
    /\ \E stream \in BlockStreams \ {<<>>} :
          LET P == BlockCompilations[stream] IN
          /\ err = Reports(P)
          /\ stream[1].type = "TOKEN_LEFT_BRACE"
          /\ \E j \in Calls(P, "declaration") :
                /\ P.trail[j].from.pos = 2
                /\ j > 1
                /\ P.trail[j - 1].op = "synchronize"
                /\ P.trail[j - 1].to.pos = P.trail[j - 1].from.pos

----------------------------------------------------------------------------
\* The last of a non-empty set of calls.
Last(calls) == CHOOSE i \in calls : \A h \in calls : h <= i
\* had_error when the calls of error_at on the trail up to call j have returned.
HadErrorBefore(P, j) ==
    LET before == {i \in Calls(P, "error_at") : i < j} IN
    IF before = {} THEN FALSE ELSE P.trail[Last(before)].to.had_error

\* C39: within one compile call had_error never goes from true back to false and
\* panic_mode implies had_error, at the call and at the return of every error_at,
\* synchronize and declaration; had_error changes in error_at only (at the call
\* of an error_at it is what the error_at before has left, false at the first,
\* and at the end of compile what the last has left); and compile returns true
\* exactly when nothing was reported on stderr, which it was if the scanner has
\* returned an error token.
C39_ErrorFlags ==
    phase = "idle" =>
        \A stream \in Streams :
           LET P == StreamCompilations[stream] IN
           /\ \A j \in 1..Len(P.trail) :
                 /\ P.trail[j].from.had_error => P.trail[j].to.had_error
                 /\ P.trail[j].from.panic_mode => P.trail[j].from.had_error
                 /\ P.trail[j].to.panic_mode => P.trail[j].to.had_error
           /\ \A j \in Calls(P, "error_at") : P.trail[j].from.had_error = HadErrorBefore(P, j)
           /\ P.had_error = HadErrorBefore(P, Len(P.trail) + 1)
           /\ P.panic_mode => P.had_error
           /\ ~P.had_error <=> P.errors = <<>>
           /\ (\E i \in 1..Len(stream) : stream[i].type = "TOKEN_ERROR") => P.had_error

\* C39 witness: interpret has returned INTERPRET_COMPILE_ERROR from a compile in
\* which synchronize cleared panic_mode while had_error stayed true, and a later
\* error_at set panic_mode again.
C39_PanicClearedAndSetAgain ==
    /\ phase = "idle"
    /\ result = "INTERPRET_COMPILE_ERROR"
    /\ \E stream \in Streams :
          LET P == StreamCompilations[stream] IN
          /\ err = Reports(P)
          /\ \E j \in Calls(P, "synchronize") :
                /\ P.trail[j].from.panic_mode /\ ~P.trail[j].to.panic_mode
                /\ P.trail[j].to.had_error
                /\ \E k \in Calls(P, "error_at") :
                      /\ k > j
                      /\ ~P.trail[k].from.panic_mode /\ P.trail[k].to.panic_mode
====
